---- MODULE Spec2Model ----
(***************************************************************************)
(* Model of yann's supervised Trainer (src/yann/train/supervised.py).      *)
(*   Spec            the progress counters, the stop flag and the control  *)
(*                   flow of Trainer.run, with the callback pipeline as    *)
(*                   the environment: every notification the run loop      *)
(*                   issues is one action; the callback it reaches may     *)
(*                   return, call trainer.stop() or be interrupted.        *)
(*   SpecOps         the same, with validate(), state_dict() and           *)
(*                   checkpoint() called between runs, on any rank.        *)
(*   SpecCheckpoint  the Checkpoint callback (callbacks/checkpoint.py).    *)
(*   SpecRestore     state_dict() of one Trainer loaded into another.      *)
(*   SpecAttrs       attribute writes through Trainer.__setattr__.         *)
(*   SpecLoop        Trainer.run with a learning-rate scheduler, stepped   *)
(*                   per batch or per epoch, with and without callbacks.   *)
(*   SpecEpochs      Trainer.run with a Checkpoint callback and validation *)
(*                   passes, with and without callbacks.                   *)
(* and of the utilities the Trainer is built on:                           *)
(*   SpecMeter       Meter (src/yann/metrics.py).                          *)
(*   SpecMovingAvg   MovingAvgMeter (src/yann/metrics.py).                 *)
(*   SpecRangeMap    RangeMap (src/yann/utils/__init__.py).                *)
(*   SpecCounter     counter (src/yann/utils/__init__.py).                 *)
(***************************************************************************)
EXTENDS Integers, Sequences, FiniteSets, TLC

VARIABLES
  num_epochs,     \* Trainer.num_epochs
  num_steps,      \* Trainer.num_steps
  num_samples,    \* Trainer.num_samples
  _stop,          \* Trainer._stop
  callbacks,      \* TRUE iff the Trainer has a (truthy) callback pipeline
  loader,         \* the batches the training loader yields: their sizes
  val_loader,     \* the validation loader's batches, <<>> when there is none
  summary,        \* Trainer.summary: the progress fields of the mapping
  saved_summary,  \* what save_summary() last persisted
  pc,             \* position of the control flow inside run(); "idle" outside
  epochs,         \* the argument of the current run(): None or <<n>>
  gen,            \* the generator self.epochs(num): started, current, end
  epoch_idx,      \* loop variable of the epoch loop
  batch_idx,      \* number of batches the batch loop has taken this epoch
  val_idx,        \* number of batches validate() has evaluated
  inputs,         \* len(inputs) of the current batch
  exc,            \* the exception in flight, "none" when there is none
  log,            \* notifications and calls of the current run, in order
  runs,           \* number of run() calls started
  faults,         \* number of disturbances so far: a stop() call, an
                  \* interruption, a step that raises, a call of another
                  \* operation between two runs
  result,         \* how the last run() left: outcome and exception
  entry,          \* the counters and the stop flag when run() was entered
  training,       \* Trainer.training: the model is in training mode
  is_main,        \* Trainer.dist.is_main: this process is the main rank
  checkpoints,    \* the checkpoint files this process has written
  freq,           \* Checkpoint.freq of the Checkpoint callback
  T,              \* two Trainers "A" and "B": their attributes
  data,           \* the mapping a state_dict() call returned last
  last,           \* how the last attribute or state operation ended
  meter,          \* a metrics.Meter: max, min, sum, count
  queue,          \* MovingAvgMeter.queue: its maxlen and its items
  observed,       \* the values passed to update() so far, in order
  range_map,      \* a utils.RangeMap: its items in insertion order
  found,          \* what the last RangeMap lookup returned or raised
  count_gen,      \* a utils.counter generator: arguments and position
  lr_scheduler,   \* TRUE iff the Trainer has a learning-rate scheduler
  lr_batch_step,  \* Trainer.lr_batch_step: the scheduler steps per batch
  checkpoint_callback  \* TRUE iff the pipeline holds a Checkpoint callback

run_vars == <<num_epochs, num_steps, num_samples, _stop, callbacks, loader,
              val_loader, summary, saved_summary, pc, epochs, gen, epoch_idx,
              batch_idx, val_idx, inputs, exc, log, runs, faults, result,
              entry, training>>

\* the state the run loop never touches
\* the objects of yann.metrics and yann.utils
util_vars == <<meter, queue, observed, range_map, found, count_gen>>

\* what the constructor was given: scheduler, its mode, a Checkpoint callback
conf_vars == <<lr_scheduler, lr_batch_step, checkpoint_callback>>

side_vars == <<is_main, checkpoints, freq, T, data, last, util_vars, conf_vars>>

vars == <<run_vars, side_vars>>

----------------------------------------------------------------------------
(* Bounds of the model *)

MaxRuns == 2
MaxEpochs == 2
MaxDataset == 4
BatchSize == 2
MaxFaults == 2
MaxFreq == 3
MaxEpochIndex == 3
MaxEvents == 4

None == <<>>
Some(n) == <<n>>

\* the sizes of the batches a DataLoader(dataset, batch_size) yields
Batches(n, bs) ==
  [i \in 1..((n + bs - 1) \div bs) |-> IF i * bs <= n THEN bs ELSE n - (i - 1) * bs]

\* a callback returns, calls trainer.stop() and returns, or is interrupted
CallbackOutcomes == {"ok", "stop", "interrupt"}
\* a step returns, returns after trainer.stop() was called while it ran,
\* is interrupted, or raises
StepOutcomes == {"ok", "stop", "interrupt", "error"}

Ev(name, index, error) == [ev |-> name, index |-> index, error |-> error]

Counters == [num_epochs |-> num_epochs, num_steps |-> num_steps,
             num_samples |-> num_samples]

----------------------------------------------------------------------------
(* Pieces of the code the actions are built from *)

\* utils.counter: the loop condition `end is None or (end and (current < end))`
counter_continues(current, end) ==
  \/ end = None
  \/ (end[1] # 0 /\ current < end[1])

\* Trainer.epochs: `self.num_epochs + num` raises TypeError when num is None
epochs_raises(num) == num = None

\* (variant: the bound taken as an absolute epoch index)
epochs_end_absolute(num) == Some(num[1])

\* Trainer.epochs: the end handed to counter()
epochs_end(num) == Some(num_epochs + num[1])

\* Trainer.stop: self._stop = val
stop(val) == val

\* (variant: the flag is left as it was)
run_keep_stop == _stop

\* Trainer.run, line 635: self._stop = False
run_clear_stop == FALSE

\* (variants: the failure always re-raised, always swallowed)
step_error_never_breaks == FALSE
step_error_always_breaks == TRUE

\* Trainer.run, line 668: if self._stop: break
step_error_breaks == _stop

\* (variant: no check after a step)
batch_loop_never_breaks == FALSE

\* Trainer.run, line 686: if self._stop: break
batch_loop_breaks == _stop

\* (variant: the flag is not read after the batch loop)
epoch_loop_never_breaks == FALSE

\* Trainer.run, line 687: if self._stop: break
epoch_loop_breaks == _stop

\* Trainer.run, line 689: self.validate() if self.val_loader else None
runs_validation == Len(val_loader) > 0

\* (variant: step() runs the forward pass in the mode it finds)
step_keeps_mode == training

\* Trainer.step: `if not self.training: self.train_mode()`, before forward
step_train_mode == IF ~training THEN TRUE ELSE training

\* Trainer.validate: `if self.training: self.eval_mode()`, before anything else
validate_eval_mode == IF training THEN FALSE ELSE training

\* (variant: the end of an epoch steps the scheduler in either mode)
steps_per_epoch_always == lr_scheduler

\* run(): `if self.lr_scheduler and self.lr_batch_step`, after a step
steps_per_batch == lr_scheduler /\ lr_batch_step

\* run() with callbacks: `if self.lr_scheduler and not self.lr_batch_step`
steps_per_epoch == lr_scheduler /\ ~lr_batch_step

\* run() without callbacks: self._lr_scheduler_step(...) at the end of every
\* epoch, which tests `if self.lr_scheduler` only
nc_steps_per_epoch == lr_scheduler

\* self.lr_scheduler.step(...), as the log records it
lr_step(index) == <<Ev("lr_step", index, "none")>>

\* Trainer.state_dict(): the progress fields of its metadata entry
state_dict_metadata == Counters

\* the file Trainer.checkpoint(name) saves: its path is derived from the
\* counters when no name is given, its content is the state_dict()
checkpoint_file(name) == [name |-> name, metadata |-> state_dict_metadata]

\* variant: a checkpoint after every freq-th epoch
Checkpoint_due_after(epoch) == (epoch + 1) % freq = 0

\* Checkpoint.on_epoch_end: `if epoch % self.freq == 0`
Checkpoint_due(epoch) == epoch % freq = 0

----------------------------------------------------------------------------

\* Trainer.__init__: the counters, the stop flag, the summary written at the
\* end of the constructor, and no run() in progress
Constructed ==
  /\ num_epochs = 0
  /\ num_steps = 0
  /\ num_samples = 0
  /\ _stop = FALSE
  /\ summary = [num_epochs |-> 0, num_steps |-> 0, num_samples |-> 0]
  /\ saved_summary = summary
  /\ checkpoints = {}
  /\ pc = "idle"
  /\ epochs = None
  /\ gen = [started |-> FALSE, current |-> 0, end |-> None]
  /\ epoch_idx = 0
  /\ batch_idx = 0
  /\ val_idx = 0
  /\ inputs = 0
  /\ exc = "none"
  /\ log = <<>>
  /\ runs = 0
  /\ faults = 0
  /\ result = [outcome |-> "none", error |-> "none"]
  /\ entry = [num_epochs |-> 0, num_steps |-> 0, num_samples |-> 0,
              stop |-> FALSE]
  /\ training = TRUE

\* the constructor's defaults: no scheduler (lr_scheduler=None,
\* lr_batch_step=False), and no Checkpoint callback in the pipeline
NoScheduler ==
  /\ lr_scheduler = FALSE
  /\ lr_batch_step = FALSE
  /\ checkpoint_callback = FALSE

\* no Meter, MovingAvgMeter, RangeMap or counter is in use
UtilsIdle ==
  /\ meter = None
  /\ queue = None
  /\ observed = <<>>
  /\ range_map = <<>>
  /\ found = None
  /\ count_gen = None

Init ==
  /\ Constructed
  /\ NoScheduler
  /\ UtilsIdle
  /\ callbacks \in BOOLEAN
  /\ \E n \in 0..MaxDataset : loader = Batches(n, BatchSize)
  /\ val_loader \in {None, <<BatchSize>>}
  /\ is_main = TRUE
  /\ freq = 1
  /\ T = None
  /\ data = None
  /\ last = None

----------------------------------------------------------------------------
(* The callback pipeline as environment.  A notification appends its event *)
(* to the log; the callback then returns ("ok"), calls trainer.stop()      *)
(* ("stop") or is interrupted.  The interruption leaves the try body of    *)
(* run() for the matching except clause.                                   *)

Allowed(o) == o = "ok" \/ faults < MaxFaults

\* what a callback does after it was notified, as the log records it
Outcome(o) ==
  CASE o = "ok" -> <<>>
    [] o = "stop" -> <<Ev("stop", -1, "none")>>
    [] o = "interrupt" -> <<Ev("raise", -1, "KeyboardInterrupt")>>

Notify(event, index, error, o, next) ==
  /\ Allowed(o)
  /\ faults' = IF o = "ok" THEN faults ELSE faults + 1
  /\ log' = log \o <<Ev(event, index, error)>> \o Outcome(o)
  /\ _stop' = IF o = "stop" THEN stop(TRUE) ELSE _stop
  /\ pc' = IF o = "interrupt" THEN "except_KeyboardInterrupt" ELSE next
  /\ exc' = IF o = "interrupt" THEN "KeyboardInterrupt" ELSE exc

\* run() is left: normally when no exception is in flight, else raising it
Leave(e) ==
  /\ pc' = "idle"
  /\ result' = [outcome |-> IF e = "none" THEN "returned" ELSE "raised",
                error |-> e]
  /\ exc' = "none"

----------------------------------------------------------------------------
(* Trainer.stop() called by the user between two runs *)

stop_idle ==
  /\ pc = "idle"
  /\ ~_stop
  /\ Allowed("stop")
  /\ faults' = faults + 1
  /\ _stop' = stop(TRUE)
  /\ UNCHANGED <<num_epochs, num_steps, num_samples, callbacks, loader,
                 val_loader, summary, saved_summary, pc, epochs, gen,
                 epoch_idx, batch_idx, val_idx, inputs, exc, log, runs,
                 result, entry>>
  /\ UNCHANGED training
  /\ UNCHANGED side_vars

\* variant: run() starts the counters afresh
run_resets_counters(E) ==
  /\ pc = "idle"
  /\ runs < MaxRuns
  /\ _stop' = run_clear_stop
  /\ epochs' = E
  /\ gen' = [started |-> FALSE, current |-> 0, end |-> None]
  /\ log' = <<>>
  /\ exc' = "none"
  /\ runs' = runs + 1
  /\ entry' = [num_epochs |-> num_epochs, num_steps |-> num_steps,
                num_samples |-> num_samples, stop |-> _stop]
  /\ result' = [outcome |-> "running", error |-> "none"]
  /\ pc' = IF callbacks THEN "on_train_start" ELSE "epochs"
  /\ epoch_idx' = 0 /\ batch_idx' = 0 /\ val_idx' = 0 /\ inputs' = 0
  /\ num_epochs' = 0 /\ num_steps' = 0 /\ num_samples' = 0
  /\ UNCHANGED <<callbacks, loader, val_loader, summary, saved_summary,
                 faults>>
  /\ UNCHANGED training
  /\ UNCHANGED side_vars

(* Trainer.run(epochs): entry *)
run(E) ==
  /\ pc = "idle"
  /\ runs < MaxRuns
  /\ _stop' = run_clear_stop
  /\ epochs' = E
  /\ gen' = [started |-> FALSE, current |-> 0, end |-> None]
  /\ log' = <<>>
  /\ exc' = "none"
  /\ runs' = runs + 1
  /\ entry' = [num_epochs |-> num_epochs, num_steps |-> num_steps,
                num_samples |-> num_samples, stop |-> _stop]
  /\ result' = [outcome |-> "running", error |-> "none"]
  /\ pc' = IF callbacks THEN "on_train_start" ELSE "epochs"
  /\ epoch_idx' = 0 /\ batch_idx' = 0 /\ val_idx' = 0 /\ inputs' = 0
  /\ UNCHANGED <<num_epochs, num_steps, num_samples, callbacks, loader,
                 val_loader, summary, saved_summary, faults>>
  /\ UNCHANGED training
  /\ UNCHANGED side_vars

on_train_start(o) ==
  /\ pc = "on_train_start"
  /\ Notify("train_start", -1, "none", o, "epochs")
  /\ UNCHANGED <<num_epochs, num_steps, num_samples, callbacks, loader,
                 val_loader, summary, saved_summary, epochs, gen, epoch_idx,
                 batch_idx, val_idx, inputs, runs, result, entry>>
  /\ UNCHANGED training
  /\ UNCHANGED side_vars

(* for epoch_idx in self.epochs(num=epochs): one next() of the generator.  *)
(* The first next() evaluates self.num_epochs + num and starts counter();  *)
(* every later one resumes after the yield: num_epochs += 1, then the      *)
(* counter advances and tests its bound.                                   *)
next_epoch ==
  /\ pc = "epochs"
  /\ IF ~gen.started /\ epochs_raises(epochs)
       THEN /\ IF callbacks
                 THEN pc' = "except_Exception" /\ exc' = "TypeError"
                      /\ UNCHANGED result
                 ELSE Leave("TypeError")
            /\ UNCHANGED <<num_epochs, gen, epoch_idx, batch_idx>>
       ELSE LET g == IF gen.started
                       THEN [gen EXCEPT !.current = @ + 1]
                       ELSE [started |-> TRUE, current |-> num_epochs,
                             end |-> epochs_end(epochs)]
            IN /\ gen' = g
               /\ num_epochs' = IF gen.started THEN num_epochs + 1
                                               ELSE num_epochs
               /\ IF counter_continues(g.current, g.end)
                    THEN /\ epoch_idx' = g.current
                         /\ batch_idx' = 0
                         /\ pc' = IF callbacks THEN "on_epoch_start"
                                               ELSE "batches"
                    ELSE /\ pc' = IF callbacks THEN "on_train_end"
                                               ELSE "update_summary"
                         /\ UNCHANGED <<epoch_idx, batch_idx>>
               /\ UNCHANGED <<exc, result>>
  /\ UNCHANGED <<num_steps, num_samples, _stop, callbacks, loader,
                 val_loader, summary, saved_summary, epochs, val_idx, inputs,
                 log, runs, faults, entry>>
  /\ UNCHANGED training
  /\ UNCHANGED side_vars

on_epoch_start(o) ==
  /\ pc = "on_epoch_start"
  /\ Notify("epoch_start", num_epochs, "none", o, "batches")
  /\ UNCHANGED <<num_epochs, num_steps, num_samples, callbacks, loader,
                 val_loader, summary, saved_summary, epochs, gen, epoch_idx,
                 batch_idx, val_idx, inputs, runs, result, entry>>
  /\ UNCHANGED training
  /\ UNCHANGED side_vars

(* for inputs, targets in self.batches() *)
next_batch ==
  /\ pc = "batches"
  /\ IF batch_idx < Len(loader)
       THEN /\ inputs' = loader[batch_idx + 1]
            /\ batch_idx' = batch_idx + 1
            /\ pc' = IF callbacks THEN "on_step_start" ELSE "nc_step"
       ELSE /\ pc' = IF callbacks THEN "epoch_check_stop" ELSE "nc_validate"
            /\ UNCHANGED <<inputs, batch_idx>>
  /\ UNCHANGED <<num_epochs, num_steps, num_samples, _stop, callbacks,
                 loader, val_loader, summary, saved_summary, epochs, gen,
                 epoch_idx, val_idx, exc, log, runs, faults, result, entry>>
  /\ UNCHANGED training
  /\ UNCHANGED side_vars

\* (variant: the flag is tested before the step and skips it)
on_step_start_preempts(o) ==
  /\ pc = "on_step_start"
  /\ Notify("step_start", num_steps, "none", o,
            IF o = "stop" THEN "epoch_check_stop" ELSE "step")
  /\ UNCHANGED <<num_epochs, num_steps, num_samples, callbacks, loader,
                 val_loader, summary, saved_summary, epochs, gen, epoch_idx,
                 batch_idx, val_idx, inputs, runs, result, entry>>
  /\ UNCHANGED training
  /\ UNCHANGED side_vars

on_step_start(o) ==
  /\ pc = "on_step_start"
  /\ Notify("step_start", num_steps, "none", o, "step")
  /\ UNCHANGED <<num_epochs, num_steps, num_samples, callbacks, loader,
                 val_loader, summary, saved_summary, epochs, gen, epoch_idx,
                 batch_idx, val_idx, inputs, runs, result, entry>>
  /\ UNCHANGED training
  /\ UNCHANGED side_vars

(* outputs, loss = self.step(...) inside the inner try *)
step(o) ==
  /\ pc = "step"
  /\ o \in StepOutcomes
  /\ Allowed(o)
  /\ faults' = IF o = "ok" THEN faults ELSE faults + 1
  /\ _stop' = IF o = "stop" THEN stop(TRUE) ELSE _stop
  /\ CASE o \in {"ok", "stop"} ->
            /\ log' = log \o <<Ev("step", num_steps, "none")>> \o Outcome(o)
            /\ pc' = "on_step_end"
            /\ UNCHANGED exc
       [] o = "interrupt" ->
            /\ log' = Append(log, Ev("step", num_steps, "KeyboardInterrupt"))
            /\ pc' = "step_except_KeyboardInterrupt"
            /\ exc' = "KeyboardInterrupt"
       [] o = "error" ->
            /\ log' = Append(log, Ev("step", num_steps, "StepError"))
            /\ pc' = "on_step_error"
            /\ exc' = "StepError"
  /\ UNCHANGED <<num_epochs, num_steps, num_samples, callbacks,
                 loader, val_loader, summary, saved_summary, epochs, gen,
                 epoch_idx, batch_idx, val_idx, inputs, runs, result, entry>>
  /\ training' = step_train_mode
  /\ UNCHANGED side_vars

\* (variant: the interruption handled like any other failure of the step)
step_except_reraises ==
  /\ pc = "step_except_KeyboardInterrupt"
  /\ pc' = "on_step_error"
  /\ UNCHANGED <<num_epochs, num_steps, num_samples, _stop, callbacks,
                 loader, val_loader, summary, saved_summary, epochs, gen,
                 epoch_idx, batch_idx, val_idx, inputs, exc, log, runs,
                 faults, result, entry>>
  /\ UNCHANGED training
  /\ UNCHANGED side_vars

(* except KeyboardInterrupt: self.stop(); break *)
step_except_KeyboardInterrupt ==
  /\ pc = "step_except_KeyboardInterrupt"
  /\ _stop' = stop(TRUE)
  /\ log' = Append(log, Ev("stop", -1, "none"))
  /\ exc' = "none"
  /\ pc' = "epoch_check_stop"
  /\ UNCHANGED <<num_epochs, num_steps, num_samples, callbacks, loader,
                 val_loader, summary, saved_summary, epochs, gen, epoch_idx,
                 batch_idx, val_idx, inputs, runs, faults, result, entry>>
  /\ UNCHANGED training
  /\ UNCHANGED side_vars

(* except Exception as e: self.callbacks.on_step_error(...) *)
on_step_error(o) ==
  /\ pc = "on_step_error"
  /\ Notify("step_error", num_steps, exc, o, "step_error_check")
  /\ UNCHANGED <<num_epochs, num_steps, num_samples, callbacks, loader,
                 val_loader, summary, saved_summary, epochs, gen, epoch_idx,
                 batch_idx, val_idx, inputs, runs, result, entry>>
  /\ UNCHANGED training
  /\ UNCHANGED side_vars

(* if self._stop: break / raise e *)
step_error_check ==
  /\ pc = "step_error_check"
  /\ IF step_error_breaks
       THEN pc' = "epoch_check_stop" /\ exc' = "none"
       ELSE pc' = "except_Exception" /\ UNCHANGED exc
  /\ UNCHANGED <<num_epochs, num_steps, num_samples, _stop, callbacks,
                 loader, val_loader, summary, saved_summary, epochs, gen,
                 epoch_idx, batch_idx, val_idx, inputs, log, runs, faults,
                 result, entry>>
  /\ UNCHANGED training
  /\ UNCHANGED side_vars

on_step_end(o) ==
  /\ pc = "on_step_end"
  /\ Notify("step_end", num_steps, "none", o, "advance")
  /\ UNCHANGED <<num_epochs, num_steps, num_samples, callbacks, loader,
                 val_loader, summary, saved_summary, epochs, gen, epoch_idx,
                 batch_idx, val_idx, inputs, runs, result, entry>>
  /\ UNCHANGED training
  /\ UNCHANGED side_vars

(* self.num_steps += 1; self.num_samples += len(inputs); if self._stop: break *)
advance ==
  /\ pc = "advance"
  /\ log' = log \o (IF steps_per_batch THEN lr_step(num_steps) ELSE <<>>)
  /\ num_steps' = num_steps + 1
  /\ num_samples' = num_samples + inputs
  /\ pc' = IF batch_loop_breaks THEN "epoch_check_stop" ELSE "batches"
  /\ UNCHANGED <<num_epochs, _stop, callbacks, loader, val_loader, summary,
                 saved_summary, epochs, gen, epoch_idx, batch_idx, val_idx,
                 inputs, exc, runs, faults, result, entry>>
  /\ UNCHANGED training
  /\ UNCHANGED side_vars

(* after the batch loop: if self._stop: break; then validation if any *)
epoch_check_stop ==
  /\ pc = "epoch_check_stop"
  /\ pc' = IF epoch_loop_breaks THEN "on_train_end"
           ELSE IF runs_validation THEN "on_validation_start"
           ELSE "on_epoch_end"
  /\ val_idx' = 0
  /\ UNCHANGED <<num_epochs, num_steps, num_samples, _stop, callbacks,
                 loader, val_loader, summary, saved_summary, epochs, gen,
                 epoch_idx, batch_idx, inputs, exc, log, runs, faults,
                 result, entry>>
  /\ UNCHANGED training
  /\ UNCHANGED side_vars

(* Trainer.validate(), called by run() when there is a validation loader *)
on_validation_start(o) ==
  /\ pc = "on_validation_start"
  /\ Notify("validation_start", -1, "none", o, "validation_batches")
  /\ UNCHANGED <<num_epochs, num_steps, num_samples, callbacks, loader,
                 val_loader, summary, saved_summary, epochs, gen, epoch_idx,
                 batch_idx, val_idx, inputs, runs, result, entry>>
  /\ training' = validate_eval_mode
  /\ UNCHANGED side_vars

(* for inputs, targets, outputs in yann.evaluate(...) *)
next_val_batch ==
  /\ pc = "validation_batches"
  /\ IF val_idx < Len(val_loader)
       THEN val_idx' = val_idx + 1 /\ pc' = "on_validation_batch"
       ELSE pc' = "on_validation_end" /\ UNCHANGED val_idx
  /\ UNCHANGED <<num_epochs, num_steps, num_samples, _stop, callbacks,
                 loader, val_loader, summary, saved_summary, epochs, gen,
                 epoch_idx, batch_idx, inputs, exc, log, runs, faults,
                 result, entry>>
  /\ UNCHANGED training
  /\ UNCHANGED side_vars

on_validation_batch(o) ==
  /\ pc = "on_validation_batch"
  /\ Notify("validation_batch", val_idx - 1, "none", o, "validation_batches")
  /\ UNCHANGED <<num_epochs, num_steps, num_samples, callbacks, loader,
                 val_loader, summary, saved_summary, epochs, gen, epoch_idx,
                 batch_idx, val_idx, inputs, runs, result, entry>>
  /\ UNCHANGED training
  /\ UNCHANGED side_vars

on_validation_end(o) ==
  /\ pc = "on_validation_end"
  /\ Notify("validation_end", -1, "none", o, "on_epoch_end")
  /\ UNCHANGED <<num_epochs, num_steps, num_samples, callbacks, loader,
                 val_loader, summary, saved_summary, epochs, gen, epoch_idx,
                 batch_idx, val_idx, inputs, runs, result, entry>>
  /\ UNCHANGED training
  /\ UNCHANGED side_vars

(* the scheduler's per-epoch step, then self.callbacks.on_epoch_end(epoch=   *)
(* epoch_idx): the callbacks of the pipeline are notified in turn, the       *)
(* Checkpoint callback among them when there is one, and an interruption     *)
(* comes before or after the checkpoint was written                          *)
on_epoch_end(o) ==
  /\ pc = "on_epoch_end"
  /\ Allowed(o)
  /\ faults' = IF o = "ok" THEN faults ELSE faults + 1
  /\ \E saved \in BOOLEAN :
       /\ saved => (checkpoint_callback /\ Checkpoint_due(epoch_idx))
       /\ (o # "interrupt" /\ checkpoint_callback /\ Checkpoint_due(epoch_idx))
            => saved
       /\ checkpoints' = IF saved THEN checkpoints \cup {checkpoint_file(None)}
                                  ELSE checkpoints
       /\ log' = log \o (IF steps_per_epoch THEN lr_step(epoch_idx) ELSE <<>>)
                     \o <<Ev("epoch_end", epoch_idx, "none")>>
                     \o (IF saved
                           THEN <<Ev("checkpoint",
                                     checkpoint_file(None).metadata.num_epochs,
                                     "none")>>
                           ELSE <<>>)
                     \o Outcome(o)
  /\ _stop' = IF o = "stop" THEN stop(TRUE) ELSE _stop
  /\ pc' = IF o = "interrupt" THEN "except_KeyboardInterrupt" ELSE "epochs"
  /\ exc' = IF o = "interrupt" THEN "KeyboardInterrupt" ELSE exc
  /\ UNCHANGED <<num_epochs, num_steps, num_samples, callbacks, loader,
                 val_loader, summary, saved_summary, epochs, gen, epoch_idx,
                 batch_idx, val_idx, inputs, runs, result, entry>>
  /\ UNCHANGED training
  /\ UNCHANGED <<is_main, freq, T, data, last, util_vars, conf_vars>>

(* after the epoch loop: self.callbacks.on_train_end(trainer=self) *)
on_train_end(o) ==
  /\ pc = "on_train_end"
  /\ Notify("train_end", -1, "none", o, "update_summary")
  /\ UNCHANGED <<num_epochs, num_steps, num_samples, callbacks, loader,
                 val_loader, summary, saved_summary, epochs, gen, epoch_idx,
                 batch_idx, val_idx, inputs, runs, result, entry>>
  /\ UNCHANGED training
  /\ UNCHANGED side_vars

(* outer handler: except KeyboardInterrupt as e: self.stop() *)
except_KeyboardInterrupt ==
  /\ pc = "except_KeyboardInterrupt"
  /\ _stop' = stop(TRUE)
  /\ log' = Append(log, Ev("stop", -1, "none"))
  /\ exc' = "none"
  /\ pc' = "update_summary"
  /\ UNCHANGED <<num_epochs, num_steps, num_samples, callbacks, loader,
                 val_loader, summary, saved_summary, epochs, gen, epoch_idx,
                 batch_idx, val_idx, inputs, runs, faults, result, entry>>
  /\ UNCHANGED training
  /\ UNCHANGED side_vars

\* (variant: the exception leaves run() without the finally clause)
on_error_skips_finally(o) ==
  /\ pc = "except_Exception"
  /\ Allowed(o)
  /\ faults' = IF o = "ok" THEN faults ELSE faults + 1
  /\ log' = log \o <<Ev("error", -1, exc)>> \o Outcome(o)
  /\ _stop' = IF o = "stop" THEN stop(TRUE) ELSE _stop
  /\ Leave(IF o = "interrupt" THEN "KeyboardInterrupt" ELSE exc)
  /\ UNCHANGED <<num_epochs, num_steps, num_samples, callbacks, loader,
                 val_loader, summary, saved_summary, epochs, gen, epoch_idx,
                 batch_idx, val_idx, inputs, runs, entry>>
  /\ UNCHANGED training
  /\ UNCHANGED side_vars

(* outer handler: except Exception as e: self.callbacks.on_error(e); raise e *)
(* An exception the handler itself lets out replaces the one in flight.    *)
on_error(o) ==
  /\ pc = "except_Exception"
  /\ Allowed(o)
  /\ faults' = IF o = "ok" THEN faults ELSE faults + 1
  /\ log' = log \o <<Ev("error", -1, exc)>> \o Outcome(o)
  /\ _stop' = IF o = "stop" THEN stop(TRUE) ELSE _stop
  /\ exc' = IF o = "interrupt" THEN "KeyboardInterrupt" ELSE exc
  /\ pc' = "update_summary"
  /\ UNCHANGED <<num_epochs, num_steps, num_samples, callbacks, loader,
                 val_loader, summary, saved_summary, epochs, gen, epoch_idx,
                 batch_idx, val_idx, inputs, runs, result, entry>>
  /\ UNCHANGED training
  /\ UNCHANGED side_vars

(* Trainer.update_summary(): the progress fields of the summary mapping *)
update_summary ==
  /\ pc = "update_summary"
  /\ summary' = Counters
  /\ log' = Append(log, Ev("update_summary", -1, "none"))
  /\ pc' = "save_summary"
  /\ UNCHANGED <<num_epochs, num_steps, num_samples, _stop, callbacks,
                 loader, val_loader, saved_summary, epochs, gen, epoch_idx,
                 batch_idx, val_idx, inputs, exc, runs, faults, result,
                 entry>>
  /\ UNCHANGED training
  /\ UNCHANGED side_vars

(* Trainer.save_summary(), the last statement of run(): the finally clause *)
(* then lets the exception in flight, if any, out to the caller            *)
save_summary ==
  /\ pc = "save_summary"
  /\ saved_summary' = summary
  /\ log' = Append(log, Ev("save_summary", -1, "none"))
  /\ Leave(exc)
  /\ UNCHANGED <<num_epochs, num_steps, num_samples, _stop, callbacks,
                 loader, val_loader, summary, epochs, gen, epoch_idx,
                 batch_idx, val_idx, inputs, runs, faults, entry>>
  /\ UNCHANGED training
  /\ UNCHANGED side_vars

----------------------------------------------------------------------------
(* The loop of run() when there is no callback pipeline (lines 708-730):   *)
(* no notification, no handler, the stop flag is never read.               *)

nc_step(o) ==
  /\ pc = "nc_step"
  /\ o \in StepOutcomes
  /\ Allowed(o)
  /\ faults' = IF o = "ok" THEN faults ELSE faults + 1
  /\ _stop' = IF o = "stop" THEN stop(TRUE) ELSE _stop
  /\ CASE o \in {"ok", "stop"} ->
            /\ log' = log \o <<Ev("step", num_steps, "none")>> \o Outcome(o)
                          \o (IF steps_per_batch THEN lr_step(num_steps)
                                                 ELSE <<>>)
            /\ num_steps' = num_steps + 1
            /\ num_samples' = num_samples + inputs
            /\ pc' = "batches"
            /\ UNCHANGED <<exc, result>>
       [] o = "interrupt" ->
            /\ log' = Append(log, Ev("step", num_steps, "KeyboardInterrupt"))
            /\ Leave("KeyboardInterrupt")
            /\ UNCHANGED <<num_steps, num_samples>>
       [] o = "error" ->
            /\ log' = Append(log, Ev("step", num_steps, "StepError"))
            /\ Leave("StepError")
            /\ UNCHANGED <<num_steps, num_samples>>
  /\ UNCHANGED <<num_epochs, callbacks, loader, val_loader, summary,
                 saved_summary, epochs, gen, epoch_idx, batch_idx, val_idx,
                 inputs, runs, entry>>
  /\ training' = step_train_mode
  /\ UNCHANGED side_vars

(* val_loss = self.validate() if self.val_loader else None *)
nc_validate ==
  /\ pc = "nc_validate"
  /\ val_idx' = IF runs_validation THEN Len(val_loader) ELSE val_idx
  /\ log' = log \o (IF runs_validation THEN <<Ev("validate", -1, "none")>>
                                        ELSE <<>>)
                \o (IF nc_steps_per_epoch THEN lr_step(epoch_idx) ELSE <<>>)
  /\ pc' = "epochs"
  /\ UNCHANGED <<num_epochs, num_steps, num_samples, _stop, callbacks,
                 loader, val_loader, summary, saved_summary, epochs, gen,
                 epoch_idx, batch_idx, inputs, exc, runs, faults, result,
                 entry>>
  /\ training' = IF runs_validation THEN validate_eval_mode ELSE training
  /\ UNCHANGED side_vars

----------------------------------------------------------------------------

Epochs == {None} \cup {Some(n) : n \in 0..MaxEpochs}

Next ==
  \/ stop_idle
  \/ \E E \in Epochs : run(E)
  \/ \E o \in CallbackOutcomes : on_train_start(o)
  \/ next_epoch
  \/ \E o \in CallbackOutcomes : on_epoch_start(o)
  \/ next_batch
  \/ \E o \in CallbackOutcomes : on_step_start(o)
  \/ \E o \in StepOutcomes : step(o)
  \/ step_except_KeyboardInterrupt
  \/ \E o \in CallbackOutcomes : on_step_error(o)
  \/ step_error_check
  \/ \E o \in CallbackOutcomes : on_step_end(o)
  \/ advance
  \/ epoch_check_stop
  \/ \E o \in CallbackOutcomes : on_validation_start(o)
  \/ next_val_batch
  \/ \E o \in CallbackOutcomes : on_validation_batch(o)
  \/ \E o \in CallbackOutcomes : on_validation_end(o)
  \/ \E o \in CallbackOutcomes : on_epoch_end(o)
  \/ \E o \in CallbackOutcomes : on_train_end(o)
  \/ except_KeyboardInterrupt
  \/ \E o \in CallbackOutcomes : on_error(o)
  \/ update_summary
  \/ save_summary
  \/ \E o \in StepOutcomes : nc_step(o)
  \/ nc_validate

Spec == Init /\ [][Next]_vars

----------------------------------------------------------------------------
(* The Trainer's other operations, called by the user between two runs,    *)
(* and the rank of the process.  On a rank that is not the main one the    *)
(* constructor installs the history callback only, so a pipeline exists.   *)

Done(op, raised, skipped) == [op |-> op, raised |-> raised, skipped |-> skipped]

\* Trainer.validate(): the validation loader is evaluated batch by batch
\* between on_validation_start and on_validation_end; a callback may call
\* stop() or be interrupted, which ends the call at that batch
validate(o) ==
  /\ pc = "idle"
  /\ faults < MaxFaults
  /\ callbacks \/ o = "ok"
  /\ faults' = faults + 1
  /\ _stop' = IF o = "stop" THEN stop(TRUE) ELSE _stop
  /\ IF o = "interrupt"
       THEN /\ val_idx' \in 0..Len(val_loader)
            /\ last' = Done("validate", "KeyboardInterrupt", {})
       ELSE /\ val_idx' = Len(val_loader)
            /\ last' = Done("validate", "none", {})
  /\ UNCHANGED <<num_epochs, num_steps, num_samples, callbacks, loader,
                 val_loader, summary, saved_summary, pc, epochs, gen,
                 epoch_idx, batch_idx, inputs, exc, log, runs, result, entry>>
  /\ UNCHANGED <<is_main, checkpoints, freq, T, data>>
  /\ UNCHANGED util_vars
  /\ UNCHANGED conf_vars
  /\ training' = validate_eval_mode

state_dict ==
  /\ pc = "idle"
  /\ faults < MaxFaults
  /\ faults' = faults + 1
  /\ data' = [metadata |-> state_dict_metadata]
  /\ last' = Done("state_dict", "none", {})
  /\ UNCHANGED <<num_epochs, num_steps, num_samples, _stop, callbacks,
                 loader, val_loader, summary, saved_summary, pc, epochs, gen,
                 epoch_idx, batch_idx, val_idx, inputs, exc, log, runs,
                 result, entry>>
  /\ UNCHANGED <<is_main, checkpoints, freq, T>>
  /\ UNCHANGED util_vars
  /\ UNCHANGED conf_vars
  /\ UNCHANGED training

\* Trainer.checkpoint(): torch.save(self.state_dict(), path) on every rank
checkpoint ==
  /\ pc = "idle"
  /\ faults < MaxFaults
  /\ faults' = faults + 1
  /\ checkpoints' = checkpoints \cup {checkpoint_file(None)}
  /\ last' = Done("checkpoint", "none", {})
  /\ UNCHANGED <<num_epochs, num_steps, num_samples, _stop, callbacks,
                 loader, val_loader, summary, saved_summary, pc, epochs, gen,
                 epoch_idx, batch_idx, val_idx, inputs, exc, log, runs,
                 result, entry>>
  /\ UNCHANGED <<is_main, freq, T, data>>
  /\ UNCHANGED util_vars
  /\ UNCHANGED conf_vars
  /\ UNCHANGED training

InitOps ==
  /\ Constructed
  /\ NoScheduler
  /\ UtilsIdle
  /\ is_main \in BOOLEAN
  /\ callbacks \in (IF is_main THEN BOOLEAN ELSE {TRUE})
  /\ loader = Batches(MaxDataset - 1, BatchSize)
  /\ val_loader = <<BatchSize>>
  /\ freq = 1
  /\ T = None
  /\ data = None
  /\ last = None

NextOps ==
  \/ Next
  \/ \E o \in CallbackOutcomes : validate(o)
  \/ state_dict
  \/ checkpoint

SpecOps == InitOps /\ [][NextOps]_vars

----------------------------------------------------------------------------
(* The Checkpoint callback (src/yann/callbacks/checkpoint.py) and the      *)
(* epoch-end events the pipeline delivers to it.                           *)

\* Checkpoint.on_epoch_end(epoch, trainer=trainer): the event, and the
\* trainer.checkpoint() call it makes
Checkpoint_on_epoch_end(epoch) ==
  /\ pc = "idle"
  /\ Cardinality({i \in DOMAIN log : log[i].ev = "epoch_end"}) < MaxEvents
  /\ IF Checkpoint_due(epoch)
       THEN /\ log' = log \o <<Ev("epoch_end", epoch, "none"),
                               Ev("checkpoint", -1, "none")>>
            /\ checkpoints' = checkpoints \cup {checkpoint_file(None)}
       ELSE /\ log' = log \o <<Ev("epoch_end", epoch, "none")>>
            /\ UNCHANGED checkpoints
  /\ UNCHANGED <<num_epochs, num_steps, num_samples, _stop, callbacks,
                 loader, val_loader, summary, saved_summary, pc, epochs, gen,
                 epoch_idx, batch_idx, val_idx, inputs, exc, runs, faults,
                 result, entry>>
  /\ UNCHANGED <<is_main, freq, T, data, last>>
  /\ UNCHANGED util_vars
  /\ UNCHANGED conf_vars
  /\ UNCHANGED training

\* Checkpoint(freq): a Trainer with a Checkpoint callback of any frequency
InitCheckpoint ==
  /\ Constructed
  /\ NoScheduler
  /\ UtilsIdle
  /\ is_main = TRUE
  /\ callbacks = TRUE
  /\ loader = Batches(MaxDataset, BatchSize)
  /\ val_loader = None
  /\ freq \in 1..MaxFreq
  /\ T = None
  /\ data = None
  /\ last = None

NextCheckpoint == \E epoch \in 0..MaxEpochIndex : Checkpoint_on_epoch_end(epoch)

SpecCheckpoint == InitCheckpoint /\ [][NextCheckpoint]_vars

----------------------------------------------------------------------------
(* The attributes of a Trainer, as a record, for the attribute writes      *)
(* (Trainer.__setattr__) and for state_dict() / load_state_dict().         *)

\* a DataLoader; `if self.loader` is its truth value, len(loader) > 0
NoLoader == [bound |-> FALSE, len |-> 0, dataset |-> "none", batch_size |-> 0]
DataLoader(dataset, batch_size, len) ==
  [bound |-> TRUE, len |-> len, dataset |-> dataset, batch_size |-> batch_size]
truthy(l) == l.bound /\ l.len > 0

\* an attribute that may hold a component with a state_dict: the attribute
\* does not exist, holds None (the class default), or holds the component;
\* a scheduler also refers to the optimizer it was built for
NoAttribute ==
  [exists |-> FALSE, present |-> FALSE, state |-> 0, optimizer |-> "none"]
NoComponent ==
  [exists |-> TRUE, present |-> FALSE, state |-> 0, optimizer |-> "none"]
Component(state, optimizer) ==
  [exists |-> TRUE, present |-> TRUE, state |-> state, optimizer |-> optimizer]

\* the outcome of an operation on a Trainer: the Trainer after it, the
\* exception it raised, the keys it skipped and the fields it failed to set
Outcome_of(self, raised, skipped, failed) ==
  [self |-> self, raised |-> raised, skipped |-> skipped, failed |-> failed]

\* variant: an optimizer assignment leaves the scheduler alone
rebinds_never(key) == FALSE

\* `if key == 'optimizer'`: the assignments that re-bind the scheduler
rebinds(key) == key = "optimizer"

\* Trainer.__setattr__(key, value).  `self.batch_size != key` compares the
\* batch size with the name of the attribute, which always differs; the
\* dataset test sits inside the batch_size branch.
__setattr__(self, key, value) ==
  LET rebound == IF rebinds(key) /\ self.lr_scheduler.exists
                    /\ self.lr_scheduler.present
                   THEN [self EXCEPT !.lr_scheduler.optimizer = value]
                   ELSE self
      copied == IF key = "loader" /\ value.bound
                  THEN [rebound EXCEPT !.dataset = value.dataset,
                                       !.batch_size = value.batch_size]
                  ELSE rebound
      rejected == /\ key = "batch_size"
                  /\ \/ truthy(copied.loader)
                     \/ /\ key = "dataset"
                        /\ copied.dataset # "none"
                        /\ truthy(copied.loader)
  IN IF rejected
       THEN Outcome_of(copied, "ValueError", {}, {})
       ELSE Outcome_of([copied EXCEPT ![key] = value], "none", {}, {})

\* Trainer.__init__: the dataset and the batch size are set, then the loader,
\* whose dataset and batch size are copied; the scheduler is resolved for
\* the Trainer's optimizer
Trainer(id, dataset, batch_size, l, optimizer, scheduled, ema, state) ==
  LET fresh == [id |-> id, name |-> id, time_created |-> id,
                num_steps |-> 0, num_samples |-> 0, num_epochs |-> 0,
                batch_size |-> batch_size, param_hash |-> <<"unset", 0>>,
                dataset |-> dataset, loader |-> NoLoader,
                optimizer |-> optimizer,
                model |-> Component(state, "none"),
                lr_scheduler |-> IF scheduled THEN Component(state, optimizer)
                                              ELSE NoComponent,
                ema |-> ema]
  IN __setattr__(fresh, "loader", l).self

\* hash_params(model): a digest of the parameters
hash_params(model) == <<"sha1", model.state>>

\* the fields of the metadata entry, in the order state_dict() writes them
MetadataKeys == <<"id", "num_steps", "num_samples", "num_epochs",
                  "batch_size", "name", "time_created", "param_hash">>

\* the attributes that may hold a component, in the order of __dict__
ComponentKeys == <<"model", "lr_scheduler", "ema">>

Range(seq) == {seq[i] : i \in DOMAIN seq}

\* Trainer.state_dict(): the metadata and one entry per attribute that
\* holds something with a state_dict
Trainer_state_dict(self) ==
  [metadata |-> [k \in Range(MetadataKeys) |->
                   IF k = "param_hash" THEN hash_params(self.model)
                                       ELSE self[k]],
   entries |-> [k \in {c \in Range(ComponentKeys) :
                         self[c].exists /\ self[c].present} |->
                  self[k].state]]

\* variant: load_state_dict(data, metadata=False)
metadata_off == FALSE

\* load_state_dict(data, metadata=True, ...): the default of `metadata`
metadata_default == TRUE

\* variant: no except clause around setattr
catches_nothing(e) == FALSE

\* `except ValueError` around setattr(self, k, v)
catches(e) == e = "ValueError"

\* load_state_dict, first loop: entries whose key is an attribute of the
\* Trainer are restored through the attribute's load_state_dict, which None
\* does not have; the other keys are skipped
RECURSIVE load_entries(_, _, _, _)
load_entries(self, d, keys, skipped) ==
  IF keys = <<>>
    THEN Outcome_of(self, "none", skipped, {})
    ELSE LET k == Head(keys)
         IN IF k \notin DOMAIN d.entries
              THEN load_entries(self, d, Tail(keys), skipped)
              ELSE IF self[k].exists
                     THEN IF self[k].present
                            THEN load_entries(
                                   [self EXCEPT ![k].state = d.entries[k]],
                                   d, Tail(keys), skipped)
                            ELSE Outcome_of(self, "AttributeError", skipped, {})
                     ELSE load_entries(self, d, Tail(keys),
                                       skipped \cup {k})

\* load_state_dict, second loop: setattr(self, k, v) for every metadata field
RECURSIVE set_metadata(_, _, _, _, _)
set_metadata(self, md, keys, skipped, failed) ==
  IF keys = <<>>
    THEN Outcome_of(self, "none", skipped, failed)
    ELSE LET k == Head(keys)
             r == __setattr__(self, k, md[k])
         IN IF r.raised = "none"
              THEN set_metadata(r.self, md, Tail(keys), skipped, failed)
              ELSE IF catches(r.raised)
                     THEN set_metadata(r.self, md, Tail(keys), skipped,
                                       failed \cup {k})
                     ELSE Outcome_of(r.self, r.raised, skipped, failed)

\* Trainer.load_state_dict(data): the metadata entry has no 'state_dict' and
\* is skipped by the first loop, then taken off the skipped set
load_state_dict(self, d) ==
  LET first == load_entries(self, d, ComponentKeys, {"metadata"})
  IN IF first.raised # "none"
       THEN first
       ELSE IF metadata_default
              THEN set_metadata(first.self, d.metadata, MetadataKeys,
                                first.skipped \ {"metadata"}, {})
              ELSE first

----------------------------------------------------------------------------
(* Two Trainers: A is trained and saved with state_dict(), B is restored   *)
(* from that mapping with load_state_dict().                               *)

\* how the last operation on Trainer B ended, and B before it
Ended(op, arg, before, r) ==
  [op |-> op, arg |-> arg, before |-> before, raised |-> r.raised,
   skipped |-> r.skipped, failed |-> r.failed]

NotRunning ==
  /\ Constructed
  /\ NoScheduler
  /\ UtilsIdle
  /\ is_main = TRUE
  /\ callbacks = TRUE
  /\ loader = Batches(MaxDataset, BatchSize)
  /\ val_loader = None
  /\ freq = 1

RunUnchanged ==
  UNCHANGED <<run_vars, is_main, checkpoints, freq, util_vars, conf_vars>>

\* an undisturbed run(1) of Trainer t: one epoch over its loader, one update
\* of the model per batch
train(t) ==
  /\ T[t].loader.bound
  /\ T[t].num_epochs < MaxEpochs
  /\ T' = [T EXCEPT ![t].num_epochs = @ + 1,
                    ![t].num_steps = @ + T[t].loader.len,
                    ![t].num_samples = @ + T[t].loader.len * T[t].batch_size,
                    ![t].model.state = @ + T[t].loader.len]
  /\ UNCHANGED <<data, last>>
  /\ RunUnchanged

\* data = A.state_dict()
A_state_dict ==
  /\ data' = Trainer_state_dict(T["A"])
  /\ UNCHANGED <<T, last>>
  /\ RunUnchanged

\* B.load_state_dict(data)
B_load_state_dict ==
  /\ data # None
  /\ LET r == load_state_dict(T["B"], data)
     IN /\ T' = [T EXCEPT !["B"] = r.self]
        /\ last' = Ended("load_state_dict", data, T["B"], r)
  /\ UNCHANGED data
  /\ RunUnchanged

\* the extra component a Trainer was given after construction, if any
Extras == {NoAttribute, Component(0, "none")}

\* the loaders a Trainer is built with: none, one over an empty dataset,
\* one with batches
Loaders(dataset, batch_size) ==
  {NoLoader} \cup {DataLoader(dataset, batch_size, n) : n \in {0, MaxDataset \div batch_size}}

InitRestore ==
  /\ NotRunning
  /\ \E sa, sb \in BOOLEAN, ea, eb \in Extras :
     \E lb \in Loaders("d2", BatchSize + 1) :
       T = [A |-> Trainer("A", "d1", BatchSize,
                          DataLoader("d1", BatchSize, MaxDataset \div BatchSize),
                          "o1", sa, ea, 1),
            B |-> Trainer("B", "d2", BatchSize + 1, lb, "o2", sb, eb, 0)]
  /\ data = None
  /\ last = Ended("none", None, None, Outcome_of(None, "none", {}, {}))

NextRestore ==
  \/ \E t \in {"A", "B"} : train(t)
  \/ A_state_dict
  \/ B_load_state_dict

SpecRestore == InitRestore /\ [][NextRestore]_vars

----------------------------------------------------------------------------
(* Attribute writes on a constructed Trainer B: trainer.<key> = value      *)

Optimizers == {"o1", "o2"}
Datasets == {"d1", "d2"}
BatchSizes == {BatchSize, BatchSize + 1}

\* a scheduler is built for some optimizer; None removes the scheduler
Schedulers == {NoComponent} \cup {Component(0, o) : o \in Optimizers}

AllLoaders ==
  UNION {Loaders(d, b) : d \in Datasets, b \in BatchSizes}

setattr(key, value) ==
  /\ LET r == __setattr__(T["B"], key, value)
     IN /\ T' = [T EXCEPT !["B"] = r.self]
        /\ last' = Ended(key, value, T["B"], r)
  /\ UNCHANGED data
  /\ RunUnchanged

InitAttrs ==
  /\ NotRunning
  /\ \E scheduled \in BOOLEAN : \E l \in Loaders("d1", BatchSize) :
       T = [B |-> Trainer("B", "d1", BatchSize, l, "o1", scheduled,
                          NoAttribute, 0)]
  /\ data = None
  /\ last = Ended("none", None, None, Outcome_of(None, "none", {}, {}))

NextAttrs ==
  \/ \E v \in Optimizers : setattr("optimizer", v)
  \/ \E v \in Schedulers : setattr("lr_scheduler", v)
  \/ \E v \in AllLoaders : setattr("loader", v)
  \/ \E v \in BatchSizes : setattr("batch_size", v)
  \/ \E v \in Datasets : setattr("dataset", v)

SpecAttrs == InitAttrs /\ [][NextAttrs]_vars

-----------------------------------------------------------------------------
(* yann.metrics and yann.utils: objects that live outside a Trainer.  Their  *)
(* specifications start with no run in progress and never start one.         *)

MaxUpdates == 4   \* update() calls on one meter that are followed
MaxValue == 2     \* observations are drawn from -MaxValue..MaxValue

Values == (0 - MaxValue)..MaxValue

NoRun ==
  /\ Constructed
  /\ NoScheduler
  /\ is_main = TRUE
  /\ callbacks = TRUE
  /\ loader = Batches(MaxDataset, BatchSize)
  /\ val_loader = None
  /\ freq = 1
  /\ T = None
  /\ data = None
  /\ last = None

TrainerUnchanged ==
  UNCHANGED <<run_vars, is_main, checkpoints, freq, T, data, last, conf_vars>>

\* a / b of two integers, kept exact: numerator and denominator
Quotient(a, b) == [num |-> a, den |-> b]

Returns(v) == [raised |-> "none", value |-> v]
Raises(e) == [raised |-> e]

-----------------------------------------------------------------------------
(* metrics.Meter *)

\* the fields after reset(), which __init__ calls
Meter_reset == [max |-> None, min |-> None, sum |-> 0, count |-> 0]

\* update() that takes the first observation as the maximum for good
Meter_update_first_max(self, val) ==
  [max   |-> IF self.max = None THEN Some(val) ELSE self.max,
   min   |-> IF self.min = None \/ val < self.min[1] THEN Some(val) ELSE self.min,
   sum   |-> self.sum + val,
   count |-> self.count + 1]

Meter_update(self, val) ==
  [max   |-> IF self.max = None \/ val > self.max[1] THEN Some(val) ELSE self.max,
   min   |-> IF self.min = None \/ val < self.min[1] THEN Some(val) ELSE self.min,
   sum   |-> self.sum + val,
   count |-> self.count + 1]

\* self.sum / self.count divides by zero on a meter without observations
Meter_average(self) ==
  IF self.count = 0
    THEN Raises("ZeroDivisionError")
    ELSE Returns(Quotient(self.sum, self.count))

MeterUnchanged == UNCHANGED <<queue, range_map, count_gen>>

reset ==
  /\ meter # None
  /\ meter' = Meter_reset
  /\ observed' = <<>>
  /\ found' = None
  /\ TrainerUnchanged
  /\ MeterUnchanged

update(val) ==
  /\ meter # None
  /\ Len(observed) < MaxUpdates
  /\ meter' = Meter_update(meter, val)
  /\ observed' = Append(observed, val)
  /\ found' = None
  /\ TrainerUnchanged
  /\ MeterUnchanged

average ==
  /\ meter # None
  /\ found' = Meter_average(meter)
  /\ UNCHANGED <<meter, observed>>
  /\ TrainerUnchanged
  /\ MeterUnchanged

InitMeter ==
  /\ NoRun
  /\ meter = Meter_reset
  /\ queue = None
  /\ observed = <<>>
  /\ range_map = <<>>
  /\ found = None
  /\ count_gen = None

NextMeter ==
  \/ reset
  \/ \E val \in Values : update(val)
  \/ average

SpecMeter == InitMeter /\ [][NextMeter]_vars

-----------------------------------------------------------------------------
(* metrics.MovingAvgMeter *)

MaxWindow == 3    \* window sizes are drawn from 1..MaxWindow

\* the builtin sum() of a sequence of numbers
RECURSIVE sum(_)
sum(s) == IF Len(s) = 0 THEN 0 ELSE s[1] + sum(SubSeq(s, 2, Len(s)))

deque(maxlen) == [maxlen |-> maxlen, items |-> <<>>]

\* a full deque that refuses the new item instead of dropping its oldest
deque_append_keeps_oldest(q, val) ==
  IF Len(q.items) < q.maxlen
    THEN [q EXCEPT !.items = Append(q.items, val)]
    ELSE q

\* deque.append: a deque that holds maxlen items drops one from the left end
deque_append(q, val) ==
  IF Len(q.items) < q.maxlen
    THEN [q EXCEPT !.items = Append(q.items, val)]
    ELSE [q EXCEPT !.items = SubSeq(Append(q.items, val), 2, Len(q.items) + 1)]

MovingAvgMeter_value(self) ==
  IF Len(self.items) = 0
    THEN Returns(None)
    ELSE Returns(Quotient(sum(self.items), Len(self.items)))

MovingAvgUnchanged == UNCHANGED <<meter, range_map, count_gen>>

MovingAvgMeter_update(val) ==
  /\ queue # None
  /\ Len(observed) < MaxUpdates
  /\ queue' = deque_append(queue, val)
  /\ observed' = Append(observed, val)
  /\ found' = None
  /\ TrainerUnchanged
  /\ MovingAvgUnchanged

value ==
  /\ queue # None
  /\ found' = MovingAvgMeter_value(queue)
  /\ UNCHANGED <<queue, observed>>
  /\ TrainerUnchanged
  /\ MovingAvgUnchanged

InitMovingAvg ==
  /\ NoRun
  /\ \E window \in 1..MaxWindow : queue = deque(window)
  /\ meter = None
  /\ observed = <<>>
  /\ range_map = <<>>
  /\ found = None
  /\ count_gen = None

NextMovingAvg ==
  \/ \E val \in Values : MovingAvgMeter_update(val)
  \/ value

SpecMovingAvg == InitMovingAvg /\ [][NextMovingAvg]_vars

-----------------------------------------------------------------------------
(* utils.RangeMap: a dict whose keys are (min, max) tuples.  A dict is the   *)
(* sequence of its items in insertion order, with distinct keys.             *)

MaxBound == 1       \* interval bounds are None or drawn from 0..MaxBound
MaxIntervals == 2   \* items one RangeMap holds

Bounds == {None} \cup {Some(n) : n \in 0..MaxBound}
Intervals == Bounds \X Bounds
Labels == {"low", "high"}

\* what __getitem__ is called with: a tuple, or a number or None
TupleKey(k) == [tuple |-> TRUE, key |-> k]
Scalar(n) == [tuple |-> FALSE, key |-> n]
Scalars == {Scalar(None)} \cup {Scalar(Some(n)) : n \in (0 - 1)..(MaxBound + 1)}

dict_has(d, k) == \E i \in 1..Len(d) : d[i].key = k

\* d[k] = v: a new key goes to the end, a known key keeps its place
dict_setitem(d, k, v) ==
  IF dict_has(d, k)
    THEN [i \in 1..Len(d) |-> IF d[i].key = k THEN [key |-> k, value |-> v] ELSE d[i]]
    ELSE Append(d, [key |-> k, value |-> v])

\* dict.__getitem__
dict_getitem(d, k) ==
  IF dict_has(d, k)
    THEN Returns(d[CHOOSE i \in 1..Len(d) : d[i].key = k].value)
    ELSE Raises("KeyError")

\* items() that iterates from the newest item to the oldest
dict_items_newest_first(d) == [i \in 1..Len(d) |-> d[Len(d) + 1 - i]]

\* dict.items(): insertion order
dict_items(d) == d

\* the two `continue` conditions of the loop body
RangeMap_skips(min, max, item) ==
  \/ min # None /\ item < min[1]
  \/ max # None /\ item > max[1]

\* the for loop over the items left; falling out of it raises
RECURSIVE RangeMap_scan(_, _)
RangeMap_scan(items, item) ==
  IF Len(items) = 0
    THEN Raises("KeyError")
    ELSE IF RangeMap_skips(items[1].key[1], items[1].key[2], item)
      THEN RangeMap_scan(SubSeq(items, 2, Len(items)), item)
      ELSE Returns(items[1].value)

RangeMap_getitem(self, item) ==
  IF item.tuple
    THEN dict_getitem(self, item.key)
    ELSE IF item.key # None
      THEN RangeMap_scan(dict_items(self), item.key[1])
      ELSE Raises("KeyError")

RangeMapUnchanged == UNCHANGED <<meter, queue, observed, count_gen>>

\* self[k] = v, as RangeMap.__init__ does for each of its items
RangeMap_setitem(k, v) ==
  /\ Len(dict_setitem(range_map, k, v)) <= MaxIntervals
  /\ range_map' = dict_setitem(range_map, k, v)
  /\ found' = None
  /\ TrainerUnchanged
  /\ RangeMapUnchanged

\* self[item] or self(item)
RangeMap_call(item) ==
  /\ found' = [item |-> item, result |-> RangeMap_getitem(range_map, item)]
  /\ UNCHANGED range_map
  /\ TrainerUnchanged
  /\ RangeMapUnchanged

InitRangeMap ==
  /\ NoRun
  /\ range_map = <<>>
  /\ meter = None
  /\ queue = None
  /\ observed = <<>>
  /\ found = None
  /\ count_gen = None

NextRangeMap ==
  \/ \E k \in Intervals, v \in Labels : RangeMap_setitem(k, v)
  \/ \E item \in Scalars : RangeMap_call(item)
  \/ \E k \in Intervals : RangeMap_call(TupleKey(k))

SpecRangeMap == InitRangeMap /\ [][NextRangeMap]_vars

-----------------------------------------------------------------------------
(* utils.counter, driven by next() *)

MaxStart == 2    \* start is drawn from -MaxStart..MaxStart, end up to MaxStart + 1
MaxStep == 2     \* step is drawn from 1..MaxStep
MaxYield == 4    \* values taken from one generator

\* counter(start, end, step): the generator before its first next()
counter(start, end, by) ==
  [start |-> start, end |-> end, step |-> by,
   started |-> FALSE, current |-> start, exhausted |-> FALSE, yielded |-> <<>>]

CounterUnchanged == UNCHANGED <<meter, queue, observed, range_map, found>>

\* next(g): resume after the last yield (current += step), test the loop
\* condition, then yield current or finish with StopIteration
counter_next ==
  /\ count_gen # None
  /\ ~count_gen.exhausted
  /\ Len(count_gen.yielded) < MaxYield
  /\ LET current == IF count_gen.started
                      THEN count_gen.current + count_gen.step
                      ELSE count_gen.current
     IN count_gen' =
          IF counter_continues(current, count_gen.end)
            THEN [count_gen EXCEPT !.started = TRUE,
                                   !.current = current,
                                   !.yielded = Append(@, current)]
            ELSE [count_gen EXCEPT !.started = TRUE,
                                   !.current = current,
                                   !.exhausted = TRUE]
  /\ TrainerUnchanged
  /\ CounterUnchanged

InitCounter ==
  /\ NoRun
  /\ \E start \in (0 - MaxStart)..MaxStart,
        end \in {None} \cup {Some(n) : n \in (0 - MaxStart)..(MaxStart + 1)},
        by \in 1..MaxStep :
       count_gen = counter(start, end, by)
  /\ meter = None
  /\ queue = None
  /\ observed = <<>>
  /\ range_map = <<>>
  /\ found = None

NextCounter == counter_next

SpecCounter == InitCounter /\ [][NextCounter]_vars

-----------------------------------------------------------------------------
(* The run loop of a Trainer that was given a learning-rate scheduler, in    *)
(* either stepping mode.                                                     *)

InitLoop ==
  /\ Constructed
  /\ UtilsIdle
  /\ callbacks \in BOOLEAN
  /\ loader = Batches(MaxDataset - 1, BatchSize)
  /\ val_loader \in {None, <<BatchSize>>}
  /\ lr_scheduler = TRUE
  /\ lr_batch_step \in BOOLEAN
  /\ checkpoint_callback = FALSE
  /\ freq = 1
  /\ is_main = TRUE
  /\ T = None
  /\ data = None
  /\ last = None

SpecLoop == InitLoop /\ [][Next]_vars

-----------------------------------------------------------------------------
(* The run loop of a Trainer with a validation loader whose pipeline, when   *)
(* it has one, holds a Checkpoint callback.                                  *)

InitEpochs ==
  /\ Constructed
  /\ UtilsIdle
  /\ callbacks \in BOOLEAN
  /\ loader = Batches(MaxDataset - 1, BatchSize)
  /\ val_loader = <<BatchSize>>
  /\ lr_scheduler = FALSE
  /\ lr_batch_step = FALSE
  /\ checkpoint_callback = callbacks
  /\ freq \in (IF callbacks THEN 1..2 ELSE {1})
  /\ is_main = TRUE
  /\ T = None
  /\ data = None
  /\ last = None

SpecEpochs == InitEpochs /\ [][Next]_vars

----------------------------------------------------------------------------
(* Reading the log of the current (or the last) run *)

RECURSIVE SumSeq(_)
SumSeq(s) == IF s = <<>> THEN 0 ELSE Head(s) + SumSeq(Tail(s))

Finished == pc = "idle" /\ runs > 0
Returned == result.outcome = "returned"

Idx(e) == {i \in DOMAIN log : log[i].ev = e}
Has(e) == Idx(e) # {}

\* the indices the notifications of one kind carried, in order
Indices(e) ==
  LET sel == SelectSeq(log, LAMBDA x : x.ev = e)
  IN [i \in 1..Len(sel) |-> sel[i].index]

\* the position of the first log entry after p that is not a stop() call
\* (Len(log) + 1 when there is none)
After(p) ==
  LET c == {j \in (p + 1)..Len(log) : log[j].ev # "stop"}
  IN IF c = {} THEN Len(log) + 1 ELSE CHOOSE j \in c : \A k \in c : j <= k

\* nothing disturbed the run: no stop(), no interruption, no exception
Undisturbed == Returned /\ ~Has("stop") /\ ~Has("raise")

\* the samples of the batches taken so far in the current run
SamplesTaken ==
  (num_epochs - entry.num_epochs) * SumSeq(loader)
    + SumSeq(SubSeq(loader, 1, batch_idx))

----------------------------------------------------------------------------
(* C1: with a callback pipeline and a loader of B batches, a run(E) that   *)
(* is neither stopped nor fails adds E to num_epochs, E*B to num_steps and *)
(* the sizes of all processed batches to num_samples, and the epochs it    *)
(* visits are the E consecutive indices from num_epochs at entry.          *)
C1_RunAdvancesCounters ==
  (Finished /\ callbacks /\ epochs # None /\ Undisturbed) =>
    /\ num_epochs = entry.num_epochs + epochs[1]
    /\ num_steps = entry.num_steps + epochs[1] * Len(loader)
    /\ num_samples = entry.num_samples + epochs[1] * SumSeq(loader)
    /\ Indices("epoch_start")
         = [i \in 1..epochs[1] |-> entry.num_epochs + i - 1]
    /\ Indices("epoch_end") = Indices("epoch_start")

\* a second run(2) over 2 batches of 2 samples visits epochs 2 and 3
C1_Witness ==
  /\ Finished /\ callbacks /\ Undisturbed
  /\ runs = 2 /\ epochs = Some(2) /\ Len(loader) = 2
  /\ entry.num_epochs = 2 /\ entry.num_steps = 4
  /\ num_epochs = 4 /\ num_steps = 8
  /\ num_samples = 4 * SumSeq(loader)
  /\ Indices("epoch_start") = <<2, 3>>

(* C2: on a fresh Trainer, stop() called by the step-start callback of the *)
(* first batch of the first epoch (and nothing else disturbing the run).   *)
StopAtFirstStepStart ==
  /\ Finished /\ callbacks /\ runs = 1 /\ faults = 1
  /\ \E i \in DOMAIN log :
       /\ log[i] = Ev("step_start", 0, "none")
       /\ i + 1 <= Len(log) /\ log[i + 1].ev = "stop"

\* C2 as claimed: the run halts with num_steps == 0 and num_samples == 0
C2_StopAtStepStartHaltsAtZero ==
  StopAtFirstStepStart => (num_steps = 0 /\ num_samples = 0)

\* C2 as the code has it: the step of that batch still runs and is counted;
\* the run halts after it, with num_steps == 1 and the first batch's samples
C2_StopAtStepStartHaltsAfterStep ==
  StopAtFirstStepStart =>
    /\ num_steps = 1
    /\ num_samples = loader[1]
    /\ num_epochs = 0
    /\ Indices("step_start") = <<0>>
    /\ Indices("step_end") = <<0>>
    /\ Returned

C2_Witness ==
  StopAtFirstStepStart /\ num_steps = 1 /\ Len(loader) = 2 /\ epochs = Some(2)

----------------------------------------------------------------------------
(* C3: cancellation never preempts a step in progress.  When stop() is     *)
(* called by the step-start callback of a batch, or while the step of the  *)
(* batch executes, the step is still executed, its step-end is notified    *)
(* (unless the step itself fails), and num_steps and num_samples are       *)
(* advanced for it before the batch loop is left.                          *)
StopDuringStep(i) ==
  /\ i + 1 <= Len(log)
  /\ log[i + 1].ev = "stop"
  /\ \/ log[i].ev = "step_start"
     \/ (log[i].ev = "step" /\ log[i].error = "none")

C3_StopDoesNotPreemptStep ==
  callbacks =>
    \A i \in DOMAIN log : StopDuringStep(i) =>
      LET k == log[i].index
          s == IF log[i].ev = "step_start" THEN After(i) ELSE i
          e == After(s)
      IN /\ (Len(log) >= s => log[s].ev = "step" /\ log[s].index = k)
         /\ (Len(log) >= e /\ log[s].error = "none"
               => log[e] = Ev("step_end", k, "none"))
         /\ (/\ Len(log) >= e /\ log[s].error = "none"
             /\ (Len(log) > e => log[e + 1].ev # "raise")
             /\ pc # "advance")
               => /\ num_steps = k + 1
                  /\ num_samples = entry.num_samples + SamplesTaken

\* just after the batch loop was left, the stopped step has been counted
C3_Witness ==
  /\ callbacks /\ pc = "epoch_check_stop" /\ Len(log) >= 4
  /\ log[Len(log)].ev = "step_end"
  /\ log[Len(log) - 2].ev = "stop"
  /\ log[Len(log) - 3].ev = "step_start"
  /\ num_steps = log[Len(log)].index + 1
  /\ batch_idx < Len(loader)

----------------------------------------------------------------------------
(* C4: once stop() has been called during run() (by any callback), no      *)
(* later epoch-start and no later step-start notification is issued in     *)
(* that run.                                                               *)
C4_NoStartAfterStop ==
  callbacks =>
    \A i, j \in DOMAIN log :
      (i < j /\ log[i].ev = "stop") =>
        log[j].ev \notin {"epoch_start", "step_start"}

----------------------------------------------------------------------------
(* C5: with a callback pipeline, however run() leaves (epochs completed,   *)
(* stopped, interrupted, exception propagating), the last two things it    *)
(* did are exactly one update_summary() followed by one save_summary(),    *)
(* and the persisted summary carries the final counters.                   *)
C5_SummaryAlwaysPersisted ==
  (Finished /\ callbacks) =>
    /\ Len(log) >= 2
    /\ log[Len(log) - 1].ev = "update_summary"
    /\ log[Len(log)].ev = "save_summary"
    /\ Cardinality(Idx("update_summary")) = 1
    /\ Cardinality(Idx("save_summary")) = 1
    /\ saved_summary = Counters

C5_Witness ==
  /\ Finished /\ callbacks /\ result.outcome = "raised"
  /\ num_steps > 0
  /\ saved_summary = Counters
  /\ log[Len(log)].ev = "save_summary"

----------------------------------------------------------------------------
(* C6: when step() raises an exception other than an interruption and the  *)
(* stop flag is set by the time the step-error callback returns, the       *)
(* callback is notified with the exception, both loops are left and run()  *)
(* returns normally: no error notification, no re-raise, the step is not   *)
(* counted.                                                                *)
StepFailedAt(i) == log[i].ev = "step" /\ log[i].error = "StepError"

\* stop() was called before the step-error callback of the step at i returned
StoppedByStepError(i) ==
  \E j \in 1..(i + 2) : j <= Len(log) /\ log[j].ev = "stop"

C6_StepErrorAfterStopBreaksQuietly ==
  (Finished /\ callbacks) =>
    \A i \in DOMAIN log : StepFailedAt(i) =>
      /\ log[i + 1] = Ev("step_error", log[i].index, "StepError")
      /\ (StoppedByStepError(i) /\ log[i + 2].ev # "raise") =>
           /\ log[After(i + 1)].ev = "train_end"
           /\ ~Has("error")
           /\ Returned
           /\ num_steps = log[i].index
           /\ \A j \in (i + 1)..Len(log) :
                log[j].ev \notin {"step_start", "epoch_start", "epoch_end"}

C6_Witness ==
  /\ Finished /\ callbacks /\ Returned
  /\ \E i \in DOMAIN log : StepFailedAt(i) /\ StoppedByStepError(i)
  /\ Has("train_end")
  /\ batch_idx < Len(loader)

----------------------------------------------------------------------------
(* C7: when step() raises an exception other than an interruption and no   *)
(* stop was requested, then in this order: step-error is notified with the *)
(* exception, the general error callback is notified with it, the summary  *)
(* is refreshed and persisted, and the same exception reaches the caller   *)
(* of run(); no train-end, epoch-end or step-end follows the failure.      *)
(* (The callbacks return; a stop() the error callback calls changes        *)
(* nothing.)                                                               *)
C7_StepErrorPropagates ==
  (Finished /\ callbacks) =>
    \A i \in DOMAIN log :
      (/\ StepFailedAt(i)
       /\ ~StoppedByStepError(i)
       /\ \A j \in i..Len(log) : log[j].ev # "raise") =>
        /\ SelectSeq(SubSeq(log, i + 1, Len(log)), LAMBDA x : x.ev # "stop")
             = << Ev("step_error", log[i].index, "StepError"),
                  Ev("error", -1, "StepError"),
                  Ev("update_summary", -1, "none"),
                  Ev("save_summary", -1, "none") >>
        /\ result = [outcome |-> "raised", error |-> "StepError"]
        /\ num_steps = log[i].index

C7_Witness ==
  /\ Finished /\ callbacks
  /\ result = [outcome |-> "raised", error |-> "StepError"]
  /\ Has("step_error") /\ Has("error") /\ ~Has("stop")
  /\ num_steps > entry.num_steps

----------------------------------------------------------------------------
(* C8: an interruption raised while a step executes, or elsewhere inside   *)
(* the try body of run() (a callback of the epoch loop), is turned into an *)
(* orderly stop: the stop flag is set, neither the step-error nor the      *)
(* general error callback is notified, no further step is started or       *)
(* executed, and run() returns normally.                                   *)
InterruptedAt(i) ==
  \/ (log[i].ev = "step" /\ log[i].error = "KeyboardInterrupt")
  \/ (log[i].ev = "raise" /\ log[i - 1].ev # "error")

C8_InterruptionIsOrderlyStop ==
  callbacks =>
    \A i \in DOMAIN log : InterruptedAt(i) =>
      /\ (i + 1 <= Len(log) => log[i + 1].ev = "stop" /\ _stop)
      /\ \A j \in (i + 1)..Len(log) :
           log[j].ev \notin {"step", "step_start", "step_error", "error",
                             "epoch_start"}
      /\ \A j \in DOMAIN log :
           log[j].error = "KeyboardInterrupt" => log[j].ev \in {"step", "raise"}
      /\ (Finished => Returned /\ _stop)

C8_Witness ==
  /\ Finished /\ callbacks /\ Returned /\ _stop
  /\ \E i \in DOMAIN log :
       log[i].ev = "step" /\ log[i].error = "KeyboardInterrupt"
  /\ num_steps > entry.num_steps

----------------------------------------------------------------------------
(* C9: every run() with a callback pipeline that ends without an exception *)
(* propagating (epochs completed, stop() requested, interruption in a step *)
(* or elsewhere in the epoch loop) notifies train-end exactly once, after  *)
(* the last step and epoch notification.                                   *)
C9_TrainEndOnEveryReturn ==
  (/\ Finished /\ callbacks /\ Returned
   /\ \A i \in Idx("raise") : log[i - 1].ev # "train_start") =>
    /\ Cardinality(Idx("train_end")) = 1
    /\ \A i \in Idx("train_end") : \A j \in (i + 1)..Len(log) :
         log[j].ev \notin {"step_start", "step", "step_end", "step_error",
                           "epoch_start", "epoch_end"}

----------------------------------------------------------------------------
(* C10: run() clears the stop flag on entry.  Inside a run the flag is set *)
(* only if stop() was called in that run, and a run entered with the flag  *)
(* set (stop() before run(), or left by an earlier stopped run) executes   *)
(* all its steps when nothing stops it.                                    *)
C10_RunClearsStopFlag ==
  /\ (pc # "idle" /\ _stop) => Has("stop")
  /\ (Finished /\ entry.stop /\ epochs # None /\ Undisturbed) =>
       /\ num_steps = entry.num_steps + epochs[1] * Len(loader)
       /\ num_epochs = entry.num_epochs + epochs[1]

C10_Witness ==
  /\ Finished /\ callbacks /\ entry.stop /\ Undisturbed
  /\ epochs = Some(2) /\ Len(loader) = 2
  /\ num_steps = entry.num_steps + 4

----------------------------------------------------------------------------
(* C11: without an epoch count the epoch sequence is infinite: a run       *)
(* entered with epochs = None visits at least one epoch and ends only      *)
(* because it was stopped, interrupted, or a step failed.                  *)
C11_UnboundedRunEndsOnlyWhenStopped ==
  (Finished /\ epochs = None) =>
    /\ IF callbacks THEN Has("epoch_start") ELSE gen.started
    /\ \/ Has("stop")
       \/ \E i \in DOMAIN log : StepFailedAt(i)
       \/ result.error \in {"KeyboardInterrupt", "StepError"}

----------------------------------------------------------------------------
(* C12: whatever run(), stop(), validate(), state_dict() and checkpoint()  *)
(* calls are made, and however the runs are stopped, interrupted or fail,  *)
(* no step of the Trainer decreases num_steps, num_samples or num_epochs.  *)
C12_CountersNeverDecrease ==
  [][/\ num_steps' >= num_steps
     /\ num_samples' >= num_samples
     /\ num_epochs' >= num_epochs]_vars

C12_Witness ==
  /\ Finished /\ runs = 2
  /\ checkpoints # {}
  /\ entry.num_steps > 0 /\ entry.num_epochs > 0
  /\ num_steps > entry.num_steps
  /\ num_samples > entry.num_samples
  /\ num_epochs > entry.num_epochs

----------------------------------------------------------------------------
(* C13: a Checkpoint callback of frequency freq >= 1 calls the trainer's   *)
(* checkpoint operation exactly once, without a name, for every epoch-end  *)
(* event whose epoch is a multiple of freq, and never otherwise.           *)
C13_CheckpointEveryFreqEpochs ==
  /\ \A i \in Idx("epoch_end") :
       (log[i].index % freq = 0) <=>
         (i < Len(log) /\ log[i + 1].ev = "checkpoint")
  /\ \A i \in Idx("checkpoint") : i > 1 /\ log[i - 1].ev = "epoch_end"
  /\ Cardinality(Idx("checkpoint")) =
       Cardinality({i \in Idx("epoch_end") : log[i].index % freq = 0})
  /\ \A c \in checkpoints : c.name = None
  /\ freq = 2 =>
       \A i \in Idx("epoch_end") :
         (i < Len(log) /\ log[i + 1].ev = "checkpoint") <=>
           (\E k \in 0..MaxEpochIndex : log[i].index = k + k)

C13_Witness ==
  /\ freq = 2
  /\ log = <<Ev("epoch_end", 0, "none"), Ev("checkpoint", -1, "none"),
             Ev("epoch_end", 1, "none"),
             Ev("epoch_end", 2, "none"), Ev("checkpoint", -1, "none"),
             Ev("epoch_end", 3, "none")>>

----------------------------------------------------------------------------
(* C14: round trip of the progress counters.  The mapping state_dict()     *)
(* returns carries A's counters, and load_state_dict() of it on a Trainer  *)
(* B with the same component types returns normally and leaves B with      *)
(* those counters, whatever B's counters were and with or without a loader.*)
SameComponentTypes ==
  \A k \in Range(ComponentKeys) :
    (k \in DOMAIN data.entries) <=> (T["B"][k].exists /\ T["B"][k].present)

ProgressOf(r) == <<r.num_steps, r.num_samples, r.num_epochs>>

C14_RoundTripRestoresCounters ==
  [][/\ A_state_dict => ProgressOf(data'.metadata) = ProgressOf(T["A"])
     /\ (B_load_state_dict /\ SameComponentTypes) =>
          /\ last'.raised = "none"
          /\ ProgressOf(T'["B"]) = ProgressOf(data.metadata)]_vars

C14_Witness ==
  /\ last.op = "load_state_dict" /\ last.raised = "none"
  /\ truthy(last.before.loader)
  /\ last.before.num_epochs = 1
  /\ data.metadata.num_epochs = 2
  /\ ProgressOf(T["B"]) = ProgressOf(data.metadata)
  /\ ProgressOf(T["B"]) # ProgressOf(last.before)

----------------------------------------------------------------------------
(* C15: load_state_dict() always returns normally; every entry whose key   *)
(* has no attribute holding a component on the Trainer (no such attribute, *)
(* or an attribute holding None) is recorded as skipped, and every other   *)
(* entry is restored.                                                      *)
Restorable(self, k) == self[k].exists /\ self[k].present

C15_UnrestorableEntriesAreSkipped ==
  [][B_load_state_dict =>
       /\ last'.raised = "none"
       /\ \A k \in DOMAIN data.entries :
            IF Restorable(T["B"], k)
              THEN T'["B"][k].state = data.entries[k] /\ k \notin last'.skipped
              ELSE k \in last'.skipped]_vars

\* the part of C15 the code keeps: a key without any attribute is skipped
C15_MissingAttributeIsSkipped ==
  [][(/\ B_load_state_dict
      /\ \A k \in DOMAIN data.entries : ~T["B"][k].exists \/ T["B"][k].present) =>
       /\ last'.raised = "none"
       /\ \A k \in DOMAIN data.entries :
            IF Restorable(T["B"], k)
              THEN T'["B"][k].state = data.entries[k] /\ k \notin last'.skipped
              ELSE k \in last'.skipped]_vars

----------------------------------------------------------------------------
(* C16: when load_state_dict() reaches the metadata, a field whose         *)
(* assignment is rejected (batch_size, when the loader forbids it) is      *)
(* logged and keeps its value, the call returns normally, and every other  *)
(* field, also those after the rejected one, takes the checkpoint's value. *)
ReachesMetadata ==
  \A k \in DOMAIN data.entries : ~T["B"][k].exists \/ T["B"][k].present

C16_RejectedFieldIsSkipped ==
  [][(B_load_state_dict /\ ReachesMetadata) =>
       /\ last'.raised = "none"
       /\ last'.failed \subseteq {"batch_size"}
       /\ truthy(T["B"].loader) => "batch_size" \in last'.failed
       /\ \A k \in Range(MetadataKeys) :
            T'["B"][k] = IF k \in last'.failed THEN T["B"][k]
                                               ELSE data.metadata[k]]_vars

C16_Witness ==
  /\ last.op = "load_state_dict" /\ last.raised = "none"
  /\ last.failed = {"batch_size"}
  /\ T["B"].batch_size = last.before.batch_size
  /\ T["B"].batch_size # data.metadata.batch_size
  /\ T["B"].name = data.metadata.name /\ T["B"].name # last.before.name
  /\ T["B"].time_created = data.metadata.time_created
  /\ T["B"].param_hash = data.metadata.param_hash

----------------------------------------------------------------------------
(* C17: on a Trainer with a loader bound, assigning batch_size a value     *)
(* other than the current one fails (ValueError, the code's InvalidState)  *)
(* and changes nothing.                                                    *)
C17_BatchSizeIsImmutableWithLoader ==
  [][\A v \in BatchSizes :
       (/\ setattr("batch_size", v)
        /\ T["B"].loader.bound
        /\ v # T["B"].batch_size) =>
         (last'.raised = "ValueError" /\ T' = T)]_vars

\* the part of C17 the code keeps: a loader that has batches
C17_LoaderWithBatchesRejectsBatchSize ==
  [][\A v \in BatchSizes :
       (setattr("batch_size", v) /\ truthy(T["B"].loader)) =>
         (last'.raised = "ValueError" /\ T' = T)]_vars

----------------------------------------------------------------------------
(* C18: with a loader and a dataset bound, assigning the dataset fails, so *)
(* the Trainer's dataset always is the dataset of its loader.              *)
C18_DatasetIsTheLoadersDataset ==
  truthy(T["B"].loader) => T["B"].dataset = T["B"].loader.dataset

----------------------------------------------------------------------------
ForeignScheduler(v) == v.present /\ v.optimizer # T["B"].optimizer

----------------------------------------------------------------------------
(* C20: a process that is not the main rank writes neither the summary     *)
(* file nor a checkpoint file.                                             *)
C20_OnlyMainProcessWrites ==
  is_main \/ (~Has("save_summary") /\ checkpoints = {})

-----------------------------------------------------------------------------
(* C21: a Meter that was created or reset and then updated with a non-empty  *)
(* sequence of values holds the largest value as max, the smallest as min,   *)
(* the number of values as count and their total as sum, and average() is    *)
(* that total divided by that number; with no update since the creation or   *)
(* the reset, max and min are absent, sum and count are 0 and average()      *)
(* fails.                                                                    *)
C21_MeterSummarisesItsUpdates ==
  /\ observed # <<>> =>
       /\ meter.max # None /\ meter.min # None
       /\ \E i \in DOMAIN observed : observed[i] = meter.max[1]
       /\ \A i \in DOMAIN observed : observed[i] <= meter.max[1]
       /\ \E i \in DOMAIN observed : observed[i] = meter.min[1]
       /\ \A i \in DOMAIN observed : observed[i] >= meter.min[1]
       /\ meter.count = Len(observed)
       /\ meter.sum = SumSeq(observed)
       /\ found # None =>
            /\ found.raised = "none"
            /\ found.value.num * Len(observed) = SumSeq(observed) * found.value.den
            /\ found.value.den > 0
  /\ observed = <<>> =>
       /\ meter = [max |-> None, min |-> None, sum |-> 0, count |-> 0]
       /\ found # None => found.raised = "ZeroDivisionError"

C21_Witness ==
  /\ Len(observed) >= 3
  /\ observed[1] < observed[2] /\ observed[3] < observed[1]
  /\ found # None /\ found.raised = "none"

\* the last k items of a sequence
LastOf(s, k) == SubSeq(s, Len(s) - k + 1, Len(s))

Least(a, b) == IF a < b THEN a ELSE b

(* C22: after n updates a MovingAvgMeter of window w holds exactly the last  *)
(* min(n, w) observations in their order of arrival, value() is their        *)
(* arithmetic mean, and value() is None when there was no update.            *)
C22_MovingAvgHoldsLastWindow ==
  queue # None =>
    LET n == Len(observed)
        held == LastOf(observed, Least(n, queue.maxlen))
    IN /\ queue.items = held
       /\ found # None =>
            /\ found.raised = "none"
            /\ n = 0 => found.value = None
            /\ n > 0 =>
                 /\ found.value # None
                 /\ found.value.den > 0
                 /\ found.value.num * Len(held) = SumSeq(held) * found.value.den

\* window 3 after the updates -1, 0, 1, 2 gives (0 + 1 + 2) / 3
C22_Witness ==
  /\ queue # None /\ queue.maxlen = 3
  /\ observed = <<-1, 0, 1, 2>>
  /\ queue.items = <<0, 1, 2>>
  /\ found = [raised |-> "none", value |-> [num |-> 3, den |-> 3]]

\* the interval (lo, hi) contains n; an absent bound is unbounded
Contains(interval, n) ==
  /\ interval[1] = None \/ interval[1][1] <= n
  /\ interval[2] = None \/ n <= interval[2][1]

Containing(n) == {i \in DOMAIN range_map : Contains(range_map[i].key, n)}

(* C23: a RangeMap lookup of a number returns the value of the first         *)
(* interval, in insertion order, that contains the number, overlapping       *)
(* intervals included, and raises KeyError when no interval contains it; a   *)
(* lookup of a tuple does no interval matching: it returns the value stored  *)
(* under exactly that key and raises KeyError when there is none.            *)
C23_RangeMapFirstContainingInterval ==
  found # None =>
    /\ (~found.item.tuple /\ found.item.key # None) =>
         LET n == found.item.key[1]
         IN IF Containing(n) = {}
              THEN found.result.raised = "KeyError"
              ELSE \E i \in Containing(n) :
                     /\ \A j \in Containing(n) : i <= j
                     /\ found.result = [raised |-> "none", value |-> range_map[i].value]
    /\ (~found.item.tuple /\ found.item.key = None) =>
         found.result.raised = "KeyError"
    /\ found.item.tuple =>
         IF \E i \in DOMAIN range_map : range_map[i].key = found.item.key
           THEN \E i \in DOMAIN range_map :
                  /\ range_map[i].key = found.item.key
                  /\ found.result = [raised |-> "none", value |-> range_map[i].value]
           ELSE found.result.raised = "KeyError"

\* two overlapping intervals with different values, and a number in both
C23_Witness ==
  /\ Len(range_map) = 2
  /\ range_map[1].value # range_map[2].value
  /\ found # None /\ ~found.item.tuple /\ found.item.key # None
  /\ Containing(found.item.key[1]) = {1, 2}
  /\ found.result.raised = "none"

\* the values counter() has yielded are start, start + step, ... in order
CounterInOrder ==
  \A i \in DOMAIN count_gen.yielded :
    count_gen.yielded[i] = count_gen.start + (i - 1) * count_gen.step

\* a finished counter has yielded every start + i * step below its end
CounterComplete ==
  count_gen.exhausted =>
    /\ count_gen.end # None
    /\ count_gen.start + Len(count_gen.yielded) * count_gen.step >= count_gen.end[1]

(* C27: counter(start, end, step) with step >= 1 never ends when end is      *)
(* absent; with an end it yields exactly the values start + i * step that    *)
(* are below end, in increasing order, and then stops, for every integer     *)
(* start and end.                                                            *)
C27_CounterYieldsValuesBelowEnd ==
  count_gen # None =>
    /\ CounterInOrder
    /\ \A i \in DOMAIN count_gen.yielded :
         count_gen.end # None => count_gen.yielded[i] < count_gen.end[1]
    /\ CounterComplete

(* The same for every end other than 0, which is what the loop condition     *)
(* `end and (current < end)` supports.                                       *)
C27_NonZeroEnd ==
  (count_gen # None /\ count_gen.end # Some(0)) =>
    /\ CounterInOrder
    /\ \A i \in DOMAIN count_gen.yielded :
         count_gen.end # None => count_gen.yielded[i] < count_gen.end[1]
    /\ CounterComplete

-----------------------------------------------------------------------------
(* The learning-rate scheduler in the log of a run *)

\* the position just after event i and the stop() call its callback made
Past(i) == IF i < Len(log) /\ log[i + 1].ev = "stop" THEN i + 2 ELSE i + 1

\* event i was delivered and its callback returned
Delivered(i) == ~(i < Len(log) /\ log[i + 1].ev = "raise")

\* event j comes straight after event i, a stop() call of i's callback aside
Follows(j, i) == i \in DOMAIN log /\ Delivered(i) /\ j = Past(i)

(* C24: in a run with a callback pipeline and a scheduler, per-batch mode    *)
(* steps the scheduler exactly once after each step whose step-end            *)
(* notification returned, before the counters advance, and never at the end  *)
(* of an epoch; per-epoch mode steps it exactly once per epoch that reaches  *)
(* its end, after validation and just before the epoch-end notification,     *)
(* and never after a batch.                                                  *)
C24_SchedulerSteppedInOneMode ==
  (callbacks /\ lr_scheduler) =>
    IF lr_batch_step
      THEN /\ \A j \in Idx("lr_step") :
                \E i \in Idx("step_end") :
                  /\ Follows(j, i)
                  /\ log[j].index = log[i].index
                  /\ num_steps > log[j].index
           /\ \A i \in Idx("step_end") :
                Delivered(i) =>
                  IF Past(i) \in DOMAIN log
                    THEN log[Past(i)].ev = "lr_step"
                    ELSE pc = "advance" /\ num_steps = log[i].index
      ELSE /\ \A j \in Idx("lr_step") :
                /\ j < Len(log)
                /\ log[j + 1].ev = "epoch_end"
                /\ log[j + 1].index = log[j].index
                /\ j > 1
                /\ IF runs_validation
                     THEN \E i \in Idx("validation_end") : Follows(j, i)
                     ELSE log[j - 1].ev \in {"step_end", "stop", "step",
                                             "step_error", "epoch_start"}
           /\ \A i \in Idx("epoch_end") :
                i > 1 /\ log[i - 1].ev = "lr_step"

\* per-batch mode: two steps completed, the scheduler stepped after each, and
\* the epoch-end notification came without another scheduler step
C24_Witness ==
  /\ callbacks /\ lr_scheduler /\ lr_batch_step
  /\ Cardinality(Idx("lr_step")) = 2
  /\ \E i \in Idx("epoch_end") : log[i - 1].ev # "lr_step"

-----------------------------------------------------------------------------
\* the validation passes of the current run, with or without notifications
ValidationPasses ==
  Cardinality(Idx("validation_end")) + Cardinality(Idx("validate"))

\* what an undisturbed run(E) of the loop with notifications leaves behind
ObservedLoopResult(E) ==
  /\ num_epochs = entry.num_epochs + E
  /\ num_steps = entry.num_steps + E * Len(loader)
  /\ num_samples = entry.num_samples + E * SumSeq(loader)
  /\ ValidationPasses = IF runs_validation THEN E ELSE 0
  /\ Cardinality(Idx("lr_step")) = IF lr_batch_step THEN E * Len(loader) ELSE E
  /\ saved_summary = Counters

(* C25: the loop run() executes without a callback pipeline is the observed  *)
(* loop with the notifications removed: for the same loader, epoch count and *)
(* scheduler mode, and with no stop or failure, both end with the same       *)
(* counters, the same number of validation passes, the same number of        *)
(* scheduler steps, and a persisted summary.                                 *)
C25_LoopsEndAlike ==
  (Finished /\ lr_scheduler /\ epochs # None /\ Undisturbed) =>
    ObservedLoopResult(epochs[1])

(* The loop with notifications ends as ObservedLoopResult says, in both      *)
(* scheduler modes.                                                          *)
C25_ObservedLoop ==
  (Finished /\ lr_scheduler /\ epochs # None /\ Undisturbed /\ callbacks) =>
    ObservedLoopResult(epochs[1])

(* The loop without notifications ends like it in per-epoch mode.            *)
C25_AlikeInPerEpochMode ==
  (Finished /\ lr_scheduler /\ epochs # None /\ Undisturbed /\ ~lr_batch_step) =>
    ObservedLoopResult(epochs[1])

-----------------------------------------------------------------------------
\* a training step has just run its forward pass
StepJustRan ==
  \/ pc \in {"on_step_end", "on_step_error", "step_except_KeyboardInterrupt",
             "advance"}
  \/ pc = "batches" /\ batch_idx > 0

\* validate() is evaluating its batches, or has just evaluated them
Validating ==
  \/ pc \in {"validation_batches", "on_validation_batch", "on_validation_end"}
  \/ pc = "epochs" /\ ~callbacks /\ gen.started /\ runs_validation

(* C26: every training step runs its forward pass with the model in          *)
(* training mode and every validation batch is evaluated in inference mode:  *)
(* validate() switches the model to inference mode at the end of an epoch    *)
(* and the first step of the next epoch switches it back before forward.     *)
C26_StepsTrainValidationInfers ==
  /\ StepJustRan => training
  /\ Validating => ~training

\* the first step of a second epoch has run, after the validation of the first
C26_Witness ==
  /\ runs_validation
  /\ pc = "on_step_end"
  /\ Has("validation_end")
  /\ \E i \in Idx("validation_end") : \E j \in Idx("step") : j > i
  /\ training

-----------------------------------------------------------------------------
(* Epochs in the log of a run with a callback pipeline *)

\* the control flow is inside an epoch: from before its epoch-start
\* notification until the generator is resumed after its epoch-end
InsideEpoch ==
  \/ pc \in {"on_epoch_start", "batches", "on_step_start", "step",
             "step_except_KeyboardInterrupt", "on_step_error",
             "step_error_check", "on_step_end", "advance", "epoch_check_stop",
             "on_validation_start", "validation_batches",
             "on_validation_batch", "on_validation_end", "on_epoch_end"}
  \/ pc = "epochs" /\ gen.started

\* the log entries of the epoch whose epoch-start notification is entry s
Span(s) ==
  LET later == {k \in (s + 1)..Len(log) :
                  log[k].ev \in {"epoch_start", "train_end", "error",
                                 "update_summary"}}
  IN IF later = {}
       THEN s..Len(log)
       ELSE s..((CHOOSE k \in later : \A m \in later : k <= m) - 1)

\* the epoch-end notification at i was interrupted by one of its callbacks
EpochEndRaised(i) ==
  \/ i + 1 <= Len(log) /\ log[i + 1].ev = "raise"
  \/ /\ i + 2 <= Len(log)
     /\ log[i + 1].ev = "checkpoint"
     /\ log[i + 2].ev = "raise"

\* the epoch-end notifications whose callbacks have all returned
EpochEndsReturned == {i \in Idx("epoch_end") : ~EpochEndRaised(i)}

\* stop() was called while the batch loop of the epoch with entries S was
\* under way
LeftByStop(S) ==
  \E j \in S :
    /\ log[j].ev = "stop"
    /\ log[j - 1].ev \in {"epoch_start", "step_start", "step", "step_end",
                          "step_error"}

StepFailed(S) ==
  \E j \in S : log[j].ev = "step" /\ log[j].error = "StepError"

Interrupted(S) ==
  \E j \in S :
    \/ log[j].ev = "raise"
    \/ log[j].ev = "step" /\ log[j].error = "KeyboardInterrupt"

\* interrupted before the epoch-end notification was issued
InterruptedBeforeEnd(S) ==
  \E j \in S :
    \/ /\ log[j].ev = "raise"
       /\ log[j - 1].ev # "epoch_end"
       /\ ~(log[j - 1].ev = "checkpoint" /\ log[j - 2].ev = "epoch_end")
    \/ log[j].ev = "step" /\ log[j].error = "KeyboardInterrupt"

NoEpochEnd(S) == \A j \in S : log[j].ev # "epoch_end"

\* num_epochs is the index of the epoch under way and of both its
\* notifications; it has counted exactly the epochs whose epoch-end
\* callbacks returned; a checkpoint of the Checkpoint callback records the
\* index of the epoch that ends
EpochAccounting ==
  /\ InsideEpoch => num_epochs = epoch_idx
  /\ \A s \in DOMAIN log :
       log[s].ev = "epoch_start" =>
         LET S == Span(s)
         IN /\ \A j \in S :
                 log[j].ev = "epoch_end" => log[j].index = log[s].index
            /\ (S = s..Len(log) /\ InsideEpoch /\ pc # "on_epoch_start")
                 => log[s].index = num_epochs
  /\ num_epochs = entry.num_epochs + Cardinality(EpochEndsReturned)
                    - (IF pc = "epochs" /\ gen.started THEN 1 ELSE 0)
  /\ \A c \in DOMAIN log :
       log[c].ev = "checkpoint" =>
         /\ log[c - 1].ev = "epoch_end"
         /\ log[c].index = log[c - 1].index

(* C28 as claimed: num_epochs equals the epoch index passed to the           *)
(* epoch-start and epoch-end notifications throughout the epoch, it is       *)
(* incremented only after the epoch-end callbacks returned (a checkpoint the *)
(* Checkpoint callback writes at the end of epoch e records num_epochs = e), *)
(* and an epoch left through a stop, an interruption or a step failure is    *)
(* never counted and never gets an epoch-end notification.                   *)
C28_EpochCountedAfterEpochEnd ==
  callbacks =>
    /\ EpochAccounting
    /\ \A s \in DOMAIN log :
         log[s].ev = "epoch_start" =>
           LET S == Span(s)
           IN (LeftByStop(S) \/ StepFailed(S) \/ Interrupted(S))
                => NoEpochEnd(S)

(* C28 as the code has it: the same, where the interruption comes before     *)
(* the epoch-end notification; an interruption raised by an epoch-end        *)
(* callback leaves the epoch after its notification was issued, and the      *)
(* epoch is not counted either.                                              *)
C28_EpochCountedAfterEpochEndReturned ==
  callbacks =>
    /\ EpochAccounting
    /\ \A s \in DOMAIN log :
         log[s].ev = "epoch_start" =>
           LET S == Span(s)
           IN /\ (LeftByStop(S) \/ StepFailed(S) \/ InterruptedBeforeEnd(S))
                   => NoEpochEnd(S)
              /\ \A i \in S :
                   (log[i].ev = "epoch_end" /\ EpochEndRaised(i)) =>
                     /\ i \notin EpochEndsReturned
                     /\ num_epochs = log[i].index

\* a second epoch is under way after a checkpoint was written at the end of
\* the first, and a later epoch-end notification was interrupted
C28_Witness ==
  /\ callbacks /\ checkpoint_callback
  /\ Has("checkpoint")
  /\ Cardinality(Idx("epoch_end")) = 2
  /\ \E i \in Idx("epoch_end") : EpochEndRaised(i)
  /\ num_epochs = entry.num_epochs + 1

-----------------------------------------------------------------------------
(* Steps in the log of a run with a callback pipeline *)

\* at i: the number of step-end notifications among the first i entries of
\* the log whose callbacks returned, that is, the steps of this run that
\* were completed by then
Completed ==
  LET done[i \in 0..Len(log)] ==
        IF i = 0 THEN 0
        ELSE done[i - 1]
               + (IF log[i].ev = "step_end" /\ Delivered(i) THEN 1 ELSE 0)
  IN done

\* the size of the batch of the k-th step of a run (k = 1, 2, ...): every
\* epoch but the last one of a run takes all the batches of the loader
BatchOfStep(k) == loader[((k - 1) % Len(loader)) + 1]

RECURSIVE SamplesOfSteps(_)
SamplesOfSteps(k) == IF k = 0 THEN 0 ELSE BatchOfStep(k) + SamplesOfSteps(k - 1)

\* the counters count exactly the steps that returned and whose step-end
\* notification returned; both notifications of a step carry the number of
\* steps completed before it; step-starts of one run are consecutive
StepAccounting ==
  LET done == Completed
      counted == done[Len(log)] - (IF pc = "advance" THEN 1 ELSE 0)
      starts == Indices("step_start")
  IN /\ num_steps = entry.num_steps + counted
     /\ num_samples = entry.num_samples + SamplesOfSteps(counted)
     /\ \A i \in DOMAIN log :
          log[i].ev \in {"step_start", "step_end"} =>
            log[i].index = entry.num_steps + done[i - 1]
     /\ \A e \in DOMAIN log :
          log[e].ev = "step_end" =>
            \E s \in 1..(e - 1) :
              /\ log[s].ev = "step_start"
              /\ \A t \in (s + 1)..(e - 1) : log[t].ev # "step_start"
              /\ log[s].index = log[e].index
     /\ \A k \in 1..(Len(starts) - 1) : starts[k + 1] = starts[k] + 1

\* the index of the last step-start notification of the run
LastStepStart == Indices("step_start")[Len(Indices("step_start"))]

\* the last step of the run returned and its step-end callbacks returned
LastStepCompleted ==
  \E e \in Idx("step_end") :
    /\ Delivered(e)
    /\ log[e].index = LastStepStart

(* C29 as claimed: a step that fails or is interrupted leaves num_steps and  *)
(* num_samples unchanged; every step-start and step-end notification carries *)
(* the number of steps completed so far, the two notifications of one step   *)
(* carry the same index, and successive step-starts carry consecutive        *)
(* indices across epochs and across runs: the next run's first step-start,   *)
(* which carries num_steps, follows the last step-start of this run.         *)
C29_StepStartsAreConsecutive ==
  callbacks =>
    /\ StepAccounting
    /\ (Finished /\ Has("step_start")) => num_steps = LastStepStart + 1

(* C29 as the code has it: the same, where the earlier step completed; the   *)
(* step-start that follows a step that failed, was interrupted or whose      *)
(* step-end notification was interrupted carries the same index again.       *)
C29_StepStartsFollowCompletedSteps ==
  callbacks =>
    /\ StepAccounting
    /\ (Finished /\ Has("step_start")) =>
         num_steps = IF LastStepCompleted THEN LastStepStart + 1
                                          ELSE LastStepStart

\* a second run took up the index of the step that failed in the first
C29_Witness ==
  /\ callbacks /\ Finished /\ runs = 2
  /\ entry.num_steps = 1
  /\ Indices("step_start") = <<1, 2>>
  /\ \E i \in Idx("step") : log[i].index = 2 /\ log[i].error # "none"
  /\ num_steps = 2

====
